---- MODULE Spec2Model ----
(***************************************************************************)
(* Model of redis_deploy: the placement planner (placement.py), the        *)
(* topology validation (config.py) and the deploy / validate / rollback    *)
(* commands (main.py) with the remote executor (ssh.py).                   *)
(***************************************************************************)
EXTENDS Integers, Sequences, FiniteSets, TLC

VARIABLES
    cfg,        \* the topology read by load_config
    prior,      \* <<what the command completed before this one had and left: its
                \* topology and the remote state at its end>>, or <<>> when there
                \* was none
    remote,     \* per endpoint, the unit file, config file and service state of
                \* redis-<port> on its host
    cmd,        \* "deploy" | "validate" | "rollback" | "test" (tests/test_placement.py)
    dry_run,    \* the --dry-run flag
    pc,         \* position of the command
    plan,       \* masters, replicas = assign_roles(cfg)
    hi,         \* index in cfg.nodes of the host being worked on
    si,         \* index of the next step of that host's with-block
    log,        \* remote-executor operations invoked so far, in order
    conn,       \* hosts of the SSH clients that are open
    vi,         \* index of the next instance validate_cluster probes
    failed_instances,
    failed_at,  \* index in log of the first operation one of whose remote
                \* commands exited non-zero unnoticed (0: none so far)
    result      \* "none" while running, "ok", or the error raised

vars == <<cfg, prior, remote, cmd, dry_run, pc, plan, hi, si, log, conn, vi, failed_instances,
          failed_at, result>>

(* ------------------------------ bounds --------------------------------- *)
Hosts == {"a", "b", "c"}
DeployHosts == {"a", "b"}
PlanMaxNodes == 3
PlanMaxPorts == 2
PlanMaxMasters == 4
PlanMaxReplicas == 2
PortBases == {1000, 7000}
MaxNodes == 2
MaxPorts == 2
MaxMasters == 3
MaxReplicas == 1
MaxInstances == 4

(* ------------------------------ helpers -------------------------------- *)
InSeq(x, s) == \E k \in 1..Len(s) : s[k] = x

Range(s) == {s[k] : k \in 1..Len(s)}

\* list.remove(x): drops the first element equal to x
RemoveFirst(s, x) ==
    LET k == CHOOSE k \in 1..Len(s) : s[k] = x /\ \A j \in 1..(k - 1) : s[j] # x
    IN SubSeq(s, 1, k - 1) \o SubSeq(s, k + 1, Len(s))

SeqsUpTo(S, n) == UNION {[1..k -> S] : k \in 0..n}

(* ------------------------------ config.py ------------------------------ *)
total_instances(c) == Len(c.nodes) * c.ports.count_per_host

\* validate without the required_instances check of lines 126-128 (mutant)
validate_nocapacity(c) ==
    IF c.cluster.masters <= 0 THEN "cluster.masters must be > 0"
    ELSE IF c.cluster.replicas_per_master < 0 THEN "cluster.replicas_per_master must be >= 0"
    ELSE IF c.cluster.masters > total_instances(c) THEN "Not enough instances to host requested masters"
    ELSE IF c.nodes = <<>> THEN "At least one node must be specified"
    ELSE IF c.ports.base < 1024 \/ c.ports.base > 65500 THEN "ports.base must be between 1024 and 65500"
    ELSE IF c.ports.count_per_host <= 0 \/ c.ports.base + c.ports.count_per_host >= 65535
        THEN "ports.count_per_host invalid for base range"
    ELSE "ok"

\* TopologyConfig.validate: the first failing check decides the error; the
\* persistence and ssh sections keep their defaults, whose checks pass.
validate(c) ==
    IF c.cluster.masters <= 0 THEN "cluster.masters must be > 0"
    ELSE IF c.cluster.replicas_per_master < 0 THEN "cluster.replicas_per_master must be >= 0"
    ELSE IF c.cluster.masters > total_instances(c) THEN "Not enough instances to host requested masters"
    ELSE IF c.cluster.masters * (1 + c.cluster.replicas_per_master) > total_instances(c)
        THEN "Not enough instances for masters + replicas per host/ports"
    ELSE IF c.nodes = <<>> THEN "At least one node must be specified"
    ELSE IF c.ports.base < 1024 \/ c.ports.base > 65500 THEN "ports.base must be between 1024 and 65500"
    ELSE IF c.ports.count_per_host <= 0 \/ c.ports.base + c.ports.count_per_host >= 65535
        THEN "ports.count_per_host invalid for base range"
    ELSE "ok"

(* ----------------------------- placement.py ---------------------------- *)
Instance(h, p) == [host |-> h, port |-> p]

RECURSIVE enumerate_from(_, _)
enumerate_from(c, h) ==
    IF h > Len(c.nodes) THEN <<>>
    ELSE (IF c.ports.count_per_host <= 0 THEN <<>>
          ELSE [i \in 1..c.ports.count_per_host |-> Instance(c.nodes[h], c.ports.base + (i - 1))])
         \o enumerate_from(c, h + 1)

enumerate_instances(c) == enumerate_from(c, 1)

\* host_to_instances left with the empty lists it starts from (mutant)
host_to_instances_unfilled(c) == [h \in Range(c.nodes) |-> <<>>]

\* host_to_instances: one key per distinct host name, each holding that
\* host's instances in enumeration order
host_to_instances(c) ==
    [h \in Range(c.nodes) |-> SelectSeq(enumerate_instances(c), LAMBDA i : i.host = h)]

\* The primary-selection loop.  idle counts the consecutive iterations that
\* found no candidate: once a whole rotation found none while some primary is
\* already placed, no later iteration changes masters or host_to_instances and
\* neither exit of the loop can be taken, so the loop runs forever.  at keeps
\* the value of host_index at which each primary was placed, left_by the way
\* the loop was left: by its condition (line 31) or by the break (line 39).
RECURSIVE master_loop(_, _, _, _, _, _)
master_loop(c, masters, h2i, host_index, idle, at) ==
    IF ~(Len(masters) < c.cluster.masters /\ enumerate_instances(c) # <<>>)
    THEN [status |-> "ok", masters |-> masters, left_by |-> "condition", at |-> at]
    ELSE LET host == c.nodes[(host_index % Len(c.nodes)) + 1]
             candidates == SelectSeq(h2i[host], LAMBDA i : ~InSeq(i, masters))
             found == candidates # <<>>
             masters2 == IF found THEN Append(masters, candidates[1]) ELSE masters
             h2i2 == IF found THEN [h2i EXCEPT ![host] = RemoveFirst(@, candidates[1])] ELSE h2i
             idle2 == IF found THEN 0 ELSE idle + 1
             at2 == IF found THEN Append(at, host_index) ELSE at
             host_index2 == host_index + 1
         IN IF host_index2 > Len(c.nodes) * 2 /\ Len(masters2) = 0
            THEN [status |-> "ok", masters |-> masters2, left_by |-> "break", at |-> at2]
            ELSE IF idle2 >= Len(c.nodes) /\ Len(masters2) > 0
            THEN [status |-> "diverges", masters |-> masters2, left_by |-> "never", at |-> at2]
            ELSE master_loop(c, masters2, h2i2, host_index2, idle2, at2)

select_masters(c) == master_loop(c, <<>>, host_to_instances(c), 0, 0, <<>>)

\* where the replica loop stood when it found no candidate: the master being
\* served, the replicas it had and the pool that was left
Stuck(m, have, remaining) == [master |-> m, have |-> have, remaining |-> remaining]

\* replica_loop taking the first remaining instance whatever its host (mutant)
RECURSIVE replica_loop_anyhost(_, _, _, _, _)
replica_loop_anyhost(c, masters, mi, replicas, remaining) ==
    IF mi > Len(masters) THEN [status |-> "ok", replicas |-> replicas]
    ELSE LET m == masters[mi]
         IN IF Len(replicas[m]) >= c.cluster.replicas_per_master
            THEN replica_loop_anyhost(c, masters, mi + 1, replicas, remaining)
            ELSE IF remaining = <<>>
                 THEN [status |-> "ValueError", replicas |-> replicas,
                       stuck |-> <<Stuck(m, replicas[m], remaining)>>]
                 ELSE replica_loop_anyhost(c, masters, mi,
                                           [replicas EXCEPT ![m] = Append(@, remaining[1])],
                                           Tail(remaining))

\* replica_loop that goes on to the next master instead of raising (mutant)
RECURSIVE replica_loop_skip(_, _, _, _, _)
replica_loop_skip(c, masters, mi, replicas, remaining) ==
    IF mi > Len(masters) THEN [status |-> "ok", replicas |-> replicas]
    ELSE LET m == masters[mi]
         IN IF Len(replicas[m]) >= c.cluster.replicas_per_master
            THEN replica_loop_skip(c, masters, mi + 1, replicas, remaining)
            ELSE LET fits == SelectSeq(remaining, LAMBDA i : i.host # m.host)
                 IN IF fits = <<>>
                    THEN replica_loop_skip(c, masters, mi + 1, replicas, remaining)
                    ELSE replica_loop_skip(c, masters, mi,
                                           [replicas EXCEPT ![m] = Append(@, fits[1])],
                                           RemoveFirst(remaining, fits[1]))

\* replica_loop taking the last fitting instance of the pool, not the first
\* (mutant)
RECURSIVE replica_loop_lastfit(_, _, _, _, _)
replica_loop_lastfit(c, masters, mi, replicas, remaining) ==
    IF mi > Len(masters) THEN [status |-> "ok", replicas |-> replicas]
    ELSE LET m == masters[mi]
         IN IF Len(replicas[m]) >= c.cluster.replicas_per_master
            THEN replica_loop_lastfit(c, masters, mi + 1, replicas, remaining)
            ELSE LET fits == SelectSeq(remaining, LAMBDA i : i.host # m.host)
                 IN IF fits = <<>>
                    THEN [status |-> "ValueError", replicas |-> replicas,
                          stuck |-> <<Stuck(m, replicas[m], remaining)>>]
                    ELSE replica_loop_lastfit(c, masters, mi,
                                              [replicas EXCEPT ![m] = Append(@, fits[Len(fits)])],
                                              RemoveFirst(remaining, fits[Len(fits)]))

\* The replica loop: master mi is being served; replicas[m] holds what it has
\* so far, remaining the pool in enumeration order.
RECURSIVE replica_loop(_, _, _, _, _)
replica_loop(c, masters, mi, replicas, remaining) ==
    IF mi > Len(masters) THEN [status |-> "ok", replicas |-> replicas]
    ELSE LET m == masters[mi]
         IN IF Len(replicas[m]) >= c.cluster.replicas_per_master
            THEN replica_loop(c, masters, mi + 1, replicas, remaining)
            ELSE LET fits == SelectSeq(remaining, LAMBDA i : i.host # m.host)
                 IN IF fits = <<>>
                    THEN [status |-> "ValueError", replicas |-> replicas,
                          stuck |-> <<Stuck(m, replicas[m], remaining)>>]
                    ELSE replica_loop(c, masters, mi,
                                      [replicas EXCEPT ![m] = Append(@, fits[1])],
                                      RemoveFirst(remaining, fits[1]))

\* What a call of assign_roles gives: status "ok" with the masters and
\* replicas returned, or the exception raised with nothing returned.  stuck
\* is not part of what is returned: it keeps where the replica loop stood when
\* it raised, nor are left_by and at, which keep how the primary-selection
\* loop went.
NoPlan ==
    [status |-> "none", masters |-> <<>>, replicas |-> <<>>, stuck |-> <<>>,
     left_by |-> "none", at |-> <<>>]

\* assign_roles returning what it has placed so far in the place of raising
\* (mutant)
assign_roles_partial(c) ==
    LET sel == select_masters(c)
    IN IF sel.status = "diverges"
       THEN [NoPlan EXCEPT !.status = "diverges", !.left_by = sel.left_by, !.at = sel.at]
       ELSE LET masters == sel.masters
                remaining == SelectSeq(enumerate_instances(c), LAMBDA i : ~InSeq(i, masters))
                rep == replica_loop(c, masters, 1, [m \in Range(masters) |-> <<>>], remaining)
            IN [status |-> "ok", masters |-> masters, replicas |-> rep.replicas,
                stuck |-> IF rep.status = "ValueError" THEN rep.stuck ELSE <<>>,
                left_by |-> sel.left_by, at |-> sel.at]

assign_roles(c) ==
    LET sel == select_masters(c)
    IN IF sel.status = "diverges"
       THEN [NoPlan EXCEPT !.status = "diverges", !.left_by = sel.left_by, !.at = sel.at]
       ELSE LET masters == sel.masters
                remaining == SelectSeq(enumerate_instances(c), LAMBDA i : ~InSeq(i, masters))
                rep == replica_loop(c, masters, 1, [m \in Range(masters) |-> <<>>], remaining)
            IN IF rep.status = "ValueError"
               THEN [NoPlan EXCEPT !.status = "ValueError", !.stuck = rep.stuck,
                                   !.left_by = sel.left_by, !.at = sel.at]
               ELSE [status |-> "ok", masters |-> masters, replicas |-> rep.replicas,
                     stuck |-> <<>>, left_by |-> sel.left_by, at |-> sel.at]

(* -------------------------------- ssh.py ------------------------------- *)
Retries == 3

\* what one connection attempt meets: the host accepts the connection, or
\* client.connect (or open_sftp) raises with one of these causes
AttemptOutcomes == {"ok", "refused", "timed out"}

Event(kind, arg) == [kind |-> kind, arg |-> arg, cause |-> ""]

\* except Exception as e: last_error = e
Failure(attempt, cause) == [kind |-> "error", arg |-> attempt, cause |-> cause]

\* the for-loop of SSH.connect sleeping after the last failed attempt as well
\* (mutant)
RECURSIVE connect_loop_sleepAlways(_, _, _, _, _)
connect_loop_sleepAlways(retries, outcomes, attempt, events, last_error) ==
    IF attempt >= retries
    THEN [raised |-> TRUE, events |-> events, last_error |-> last_error]
    ELSE LET tried == Append(events, Event("attempt", attempt))
         IN IF outcomes[attempt + 1] = "ok"
            THEN [raised |-> FALSE, events |-> tried, last_error |-> last_error]
            ELSE connect_loop_sleepAlways(retries, outcomes, attempt + 1,
                     tried \o <<Failure(attempt, outcomes[attempt + 1]),
                                Event("sleep", 2^attempt), Event("close", attempt)>>,
                     outcomes[attempt + 1])

\* The for-loop of SSH.connect from iteration attempt on (attempt counts from
\* 0 as range does); outcomes[k] is what the k-th attempt meets.  events are,
\* in order: "attempt" (a client is created and client.connect called),
\* "error" (the exception caught), "sleep" (time.sleep of so many seconds)
\* and "close" (self.close()).
RECURSIVE connect_loop(_, _, _, _, _)
connect_loop(retries, outcomes, attempt, events, last_error) ==
    IF attempt >= retries
    THEN [raised |-> TRUE, events |-> events, last_error |-> last_error]
    ELSE LET tried == Append(events, Event("attempt", attempt))
         IN IF outcomes[attempt + 1] = "ok"
            THEN [raised |-> FALSE, events |-> tried, last_error |-> last_error]
            ELSE connect_loop(retries, outcomes, attempt + 1,
                     Append(tried, Failure(attempt, outcomes[attempt + 1]))
                         \o (IF attempt < retries - 1
                             THEN <<Event("sleep", 2^attempt)>>
                             ELSE <<>>)
                         \o <<Event("close", attempt)>>,
                     outcomes[attempt + 1])

\* the client is open when the last thing done to it was a successful
\* client.connect
IsOpen(events) == events # <<>> /\ events[Len(events)].kind = "attempt"

Attempts(events) == Len(SelectSeq(events, LAMBDA e : e.kind = "attempt"))

\* RuntimeError(f"Failed to connect to {host} after {retries} attempts. Last
\* error: {last_error}")
ConnectionError(host, retries, last_error) ==
    [msg |-> "Failed to connect", host |-> host, retries |-> retries, last_error |-> last_error]

\* SSH.connect of a client made for host with so many retries: a dry run
\* returns at once; otherwise the loop, and the terminal error after it
SSH_connect(dry, host, retries, outcomes) ==
    IF dry THEN [raised |-> FALSE, open |-> FALSE, events |-> <<>>, error |-> <<>>]
    ELSE LET r == connect_loop(retries, outcomes, 0, <<>>, "None")
         IN [raised |-> r.raised, open |-> IsOpen(r.events), events |-> r.events,
             error |-> IF r.raised THEN <<ConnectionError(host, retries, r.last_error)>>
                       ELSE <<>>]

\* a host that accepts the connection at attempt ok_at (0: never) and refuses
\* it before
Accepting(ok_at) == [k \in 1..Retries |-> IF k = ok_at THEN "ok" ELSE "refused"]

\* SSH.connect of a client made without a retries argument, as every caller
\* in the package makes it: ok_at is the attempt at which the host accepts the
\* connection (0: never).  attempts is the number of attempts made.
connect(dry, ok_at) ==
    LET r == SSH_connect(dry, "", Retries, Accepting(ok_at))
    IN [raised |-> r.raised, open |-> r.open, attempts |-> Attempts(r.events)]

\* SSH.close leaving the client as it is (mutant)
SSH_close_leak(open, host) == open

\* SSH.close, which SSH.__exit__ calls: the client made for host is closed;
\* open lists the hosts of the clients that are open
SSH_close(open, host) == IF InSeq(host, open) THEN RemoveFirst(open, host) ELSE open

\* the open clients once SSH.connect ended as c did for host
Opened(open, host, c) == IF c.open THEN Append(open, host) ELSE open

\* the open clients after a whole with SSH(...) statement whose connect ended
\* as c did: __exit__ runs however the block is left, but not when __enter__
\* raised
With(open, host, c) ==
    IF c.raised THEN Opened(open, host, c) ELSE SSH_close(Opened(open, host, c), host)

\* SSH.run: dry-run answers (0, "", "") without dispatching; otherwise the
\* answer is the host's.
ssh_run(dry, resp) == IF dry THEN [code |-> 0, out |-> ""] ELSE resp

Outs == {"", "512", "4194304"}
Resp == [code : {0}, out : Outs] \cup [code : {1}, out : {""}]
CodeResp == [code : {0, 1}, out : {""}]

\* int(out.strip()): raises ValueError unless the text is a number
is_int(s) == s \in {"512", "4194304"}
int(s) == CASE s = "512" -> 512 [] s = "4194304" -> 4194304

(* ------------------------------ install.py ----------------------------- *)
\* A function that issues its commands without looking at their exit codes:
\* it returns normally unless the transport raises.
unchecked(dry, env) ==
    IF dry THEN "ok"
    ELSE IF env.exc THEN "raise"
    ELSE IF env.code # 0 THEN "rcfail"
    ELSE "ok"

UncheckedEnvs == [code : {0, 1}, exc : BOOLEAN]

disable_swap(dry, env) == unchecked(dry, env)

validate_system_requirements(dry, env) ==
    LET mem == ssh_run(dry, env.mem)
        disk == ssh_run(dry, env.disk)
        touch == ssh_run(dry, env.touch)
    IN IF mem.code = 0 /\ ~is_int(mem.out) THEN "ValueError"
       ELSE IF disk.code = 0 /\ ~is_int(disk.out) THEN "ValueError"
       ELSE IF disk.code = 0 /\ int(disk.out) < 1024 * 1024 THEN "False"
       ELSE IF touch.code # 0 THEN "False"
       ELSE "True"

\* cfg.redis_version when the file does not set it, and the versions a file
\* can ask for
RedisVersion == "7.2.5"
Versions == {"7.2.5", "6.2.14"}

\* The answer to {prefix}/bin/redis-server --version: out is the version the
\* binary reports, which is the one asked for or the default one.  (The code
\* never reads out, so its behaviour is the same whatever is reported.)
VerifyResp(c) ==
    [code : {0}, out : {c.redis_version, RedisVersion}] \cup [code : {1}, out : {""}]

InstallEnvs(c) ==
    [mem : Resp, disk : Resp, touch : CodeResp, make : CodeResp,
     install : CodeResp, verify : VerifyResp(c), exc : BOOLEAN]

\* What the host does to the engine installation: the first of the
\* requirements check (too little space in /tmp, or /tmp not writable), make,
\* make install and redis-server --version that it fails, "none" if it fails
\* none of them.  A dry run asks the host nothing.
engine_fault(dry, env) ==
    IF dry THEN "none"
    ELSE IF (env.disk.code = 0 /\ env.disk.out = "512") \/ env.touch.code # 0 THEN "requirements"
    ELSE IF env.make.code # 0 THEN "make"
    ELSE IF env.install.code # 0 THEN "install"
    ELSE IF env.verify.code # 0 THEN "verify"
    ELSE "none"

\* the version reported by the binary that install_redis_from_source left at
\* the prefix when it returned: <<>> when it raised or asked the host nothing
reported_version(dry, env, r) ==
    IF dry \/ r # "ok" THEN <<>> ELSE <<env.verify.out>>

\* install_redis_from_source without the exit-code test after make (mutant)
install_redis_from_source_makeUnchecked(dry, env) ==
    LET req == validate_system_requirements(dry, env)
    IN IF ~dry /\ env.exc THEN "SSHException"
       ELSE IF req = "ValueError" THEN "ValueError"
       ELSE IF req = "False" THEN "System requirements validation failed"
       ELSE IF ssh_run(dry, env.install).code # 0 THEN "Failed to install Redis"
       ELSE IF ssh_run(dry, env.verify).code # 0 THEN "Redis installation verification failed"
       ELSE "ok"

\* install_redis_from_source: "ok" when it returns, else the error raised
install_redis_from_source(dry, env) ==
    LET req == validate_system_requirements(dry, env)
    IN IF ~dry /\ env.exc THEN "SSHException"
       ELSE IF req = "ValueError" THEN "ValueError"
       ELSE IF req = "False" THEN "System requirements validation failed"
       ELSE IF ssh_run(dry, env.make).code # 0 THEN "Failed to compile Redis"
       ELSE IF ssh_run(dry, env.install).code # 0 THEN "Failed to install Redis"
       ELSE IF ssh_run(dry, env.verify).code # 0 THEN "Redis installation verification failed"
       ELSE "ok"

(* -------------------- redis_instance.py, observability.py -------------- *)
install_instance(dry, env) == unchecked(dry, env)

\* The state of redis-<port> on a host: is the unit file there, is the config
\* file there, is the service running, is it enabled ("unknown": either).
Absent == [unit |-> "no", conf |-> "no", active |-> "no", enabled |-> "no"]

\* after install_instance returned: both files were uploaded; the systemctl
\* commands were issued with their exit codes dropped
Installed == [unit |-> "yes", conf |-> "yes", active |-> "unknown", enabled |-> "unknown"]

\* after install_instance raised part of the way
Unknown == [unit |-> "unknown", conf |-> "unknown", active |-> "unknown", enabled |-> "unknown"]

Fresh(c) == [i \in Range(enumerate_instances(c)) |-> Absent]

setup_exporters_on_host(dry, env) == unchecked(dry, env)

validate_exporters(dry, env) == unchecked(dry, env)

(* -------------------------------- main.py ------------------------------ *)
Step(op, port) == [op |-> op, port |-> port]

\* the with-block with the exporters set up before the instances (mutant)
HostPipeline_exportersFirst(c) ==
    (IF c.disable_swap THEN <<Step("disable_swap", 0)>> ELSE <<>>)
    \o <<Step("install_redis_from_source", 0), Step("setup_exporters_on_host", 0)>>
    \o (IF c.ports.count_per_host <= 0 THEN <<>>
        ELSE [i \in 1..c.ports.count_per_host |-> Step("install_instance", c.ports.base + (i - 1))])
    \o <<Step("validate_exporters", 0)>>

\* the body of the with-block of deploy, for one host
HostPipeline(c) ==
    (IF c.disable_swap THEN <<Step("disable_swap", 0)>> ELSE <<>>)
    \o <<Step("install_redis_from_source", 0)>>
    \o (IF c.ports.count_per_host <= 0 THEN <<>>
        ELSE [i \in 1..c.ports.count_per_host |-> Step("install_instance", c.ports.base + (i - 1))])
    \o <<Step("setup_exporters_on_host", 0), Step("validate_exporters", 0)>>

\* One operation of the remote executor as the run saw it.  cause is what the
\* host did to make it fail ("none": nothing), command the words of the
\* command line where the operation is a single command, seen what was read
\* from the host's answer, attempts the number of connection attempts made
\* when the operation ended with the terminal connection error; events and
\* error are those of SSH.connect where it is called by itself; open is the
\* number of clients open while the operation ran; colocated tells that the
\* host's answer showed a replica on the host of its own primary.
Entry(h, host, op, port, res) ==
    [hi |-> h, host |-> host, op |-> op, port |-> port, sent |-> ~dry_run, res |-> res,
     cause |-> "none", command |-> <<>>, seen |-> <<>>,
     attempts |-> 0, events |-> <<>>, error |-> <<>>, open |-> Len(conn),
     colocated |-> FALSE]

\* the attempts an operation's entry records for its connection c
Made(c) == IF c.raised THEN c.attempts ELSE 0

\* the entry of a with statement's SSH.__enter__
ConnectEntry(h, host, c) ==
    [Entry(h, host, "connect", 0, IF c.raised THEN "raise" ELSE "ok")
        EXCEPT !.attempts = Made(c), !.open = Len(Opened(conn, host, c))]

\* the log entry of an operation with outcome res: what the caller sees is
\* only whether it returned or raised
Seen(res) == IF res = "raise" THEN "raise" ELSE "ok"

\* failed_at after an operation with outcome res was logged at index k
Noted(res, k) == IF res = "rcfail" /\ failed_at = 0 THEN k ELSE failed_at

\* SSHConfig.connection_retries when the file does not set it
DefaultConnectionRetries == 3

Topology(nodes, base, count, masters, rpm, create, swap) ==
    [nodes |-> nodes,
     ports |-> [base |-> base, count_per_host |-> count],
     cluster |-> [masters |-> masters, replicas_per_master |-> rpm, create |-> create],
     disable_swap |-> swap,
     redis_version |-> RedisVersion,
     ssh |-> [connection_retries |-> DefaultConnectionRetries]]

\* Host names are opaque to the code, so the first host of a list is always
\* called "a".
Topologies ==
    {t \in {Topology(n, 7000, k, m, r, cr, sw) :
                n \in SeqsUpTo(DeployHosts, MaxNodes), k \in 0..MaxPorts,
                m \in 0..MaxMasters, r \in 0..MaxReplicas,
                cr \in BOOLEAN, sw \in BOOLEAN} :
        /\ total_instances(t) <= MaxInstances
        /\ t.nodes # <<>> => t.nodes[1] = "a"}

Start ==
    /\ pc = "start"
    /\ plan = NoPlan
    /\ hi = 0
    /\ si = 0
    /\ log = <<>>
    /\ conn = <<>>
    /\ vi = 0
    /\ failed_instances = <<>>
    /\ failed_at = 0
    /\ result = "none"

Init ==
    /\ cfg \in Topologies
    /\ prior = <<>>
    /\ remote = Fresh(cfg)
    /\ cmd \in {"deploy", "validate", "rollback"}
    /\ dry_run \in (IF cmd = "validate" THEN {FALSE} ELSE BOOLEAN)
    /\ Start

Exit(res) ==
    /\ pc' = "exit"
    /\ result' = res

\* cfg = load_config(config): builds the topology and validates it
LoadConfig ==
    /\ pc = "start"
    /\ IF validate(cfg) = "ok"
       THEN /\ pc' = (IF cmd = "validate" THEN "validate_cluster"
                      ELSE IF cmd = "rollback" THEN "rollback" ELSE "loaded")
            /\ hi' = (IF cmd = "rollback" THEN 1 ELSE hi)
            /\ UNCHANGED result
       ELSE Exit(validate(cfg)) /\ UNCHANGED hi
    /\ UNCHANGED <<cfg, prior, remote, cmd, dry_run, plan, si, log, conn, vi, failed_instances, failed_at>>

\* deploy going on to the hosts when assign_roles raised (mutant)
AssignRoles_ignoreError ==
    /\ pc = "loaded"
    /\ cmd \in {"deploy", "test"}
    /\ plan' = assign_roles(cfg)
    /\ IF plan'.status = "diverges"
       THEN pc' = "hang" /\ UNCHANGED <<result, hi>>
       ELSE IF cmd = "test"
       THEN Exit(IF plan'.status = "ok" THEN "ok" ELSE plan'.status) /\ UNCHANGED hi
       ELSE pc' = "connect" /\ hi' = 1 /\ UNCHANGED result
    /\ UNCHANGED <<cfg, prior, remote, cmd, dry_run, si, log, conn, vi, failed_instances, failed_at>>

\* masters, replicas = assign_roles(cfg)
AssignRoles ==
    /\ pc = "loaded"
    /\ cmd \in {"deploy", "test"}
    /\ plan' = assign_roles(cfg)
    /\ IF plan'.status = "diverges"
       THEN pc' = "hang" /\ UNCHANGED <<result, hi>>
       ELSE IF plan'.status # "ok"
       THEN Exit(plan'.status) /\ UNCHANGED hi
       ELSE IF cmd = "test"
       THEN Exit("ok") /\ UNCHANGED hi
       ELSE pc' = "connect" /\ hi' = 1 /\ UNCHANGED result
    /\ UNCHANGED <<cfg, prior, remote, cmd, dry_run, si, log, conn, vi, failed_instances, failed_at>>

\* with _ssh_for_host(cfg, host, dry_run=dry_run) as ssh:  (SSH.__enter__)
Connect ==
    /\ pc = "connect"
    /\ cmd = "deploy"
    /\ \E ok_at \in 0..Retries :
          LET host == cfg.nodes[hi]
              c == connect(dry_run, ok_at)
          IN /\ log' = Append(log, ConnectEntry(hi, host, c))
             /\ conn' = Opened(conn, host, c)
             /\ IF c.raised
                THEN Exit("Failed to connect") /\ UNCHANGED si
                ELSE pc' = "step" /\ si' = 1 /\ UNCHANGED result
    /\ UNCHANGED <<cfg, prior, remote, cmd, dry_run, plan, hi, vi, failed_instances, failed_at>>

\* One statement of the with-block has run with outcome res: go on with the
\* next one, or leave the block (SSH.__exit__ closes the client) at its end
\* or when the statement raised.
AfterStep(op, port, res, err, cause, seen) ==
    LET host == cfg.nodes[hi]
        last == si = Len(HostPipeline(cfg))
    IN /\ log' = Append(log, [Entry(hi, host, op, port, Seen(res))
                                  EXCEPT !.cause = cause, !.seen = seen])
       /\ failed_at' = Noted(res, Len(log) + 1)
       /\ IF res = "raise"
          THEN /\ conn' = SSH_close(conn, host)
               /\ Exit(err)
               /\ UNCHANGED <<hi, si>>
          ELSE IF ~last
          THEN /\ si' = si + 1
               /\ UNCHANGED <<pc, result, hi, conn>>
          ELSE /\ conn' = SSH_close(conn, host)
               /\ si' = 0
               /\ UNCHANGED result
               /\ IF hi < Len(cfg.nodes)
                  THEN pc' = "connect" /\ hi' = hi + 1
                  ELSE pc' = (IF cfg.cluster.create THEN "create_cluster" ELSE "provision_grafana")
                       /\ hi' = 0
       /\ remote' = IF op = "install_instance" /\ ~dry_run
                    THEN [remote EXCEPT ![Instance(host, port)] =
                              IF res = "raise" THEN Unknown ELSE Installed]
                    ELSE remote
       /\ UNCHANGED <<cfg, prior, cmd, dry_run, plan, vi, failed_instances>>

AtStep(op) ==
    /\ pc = "step"
    /\ HostPipeline(cfg)[si].op = op

\* if cfg.disable_swap: disable_swap(ssh)
DisableSwap ==
    /\ AtStep("disable_swap")
    /\ \E env \in UncheckedEnvs :
          AfterStep("disable_swap", 0, disable_swap(dry_run, env), "SSHException", "none", <<>>)

\* install_redis_from_source(ssh, cfg.redis_version, cfg.paths.install_prefix)
InstallRedis ==
    /\ AtStep("install_redis_from_source")
    /\ \E env \in InstallEnvs(cfg) :
          LET r == install_redis_from_source(dry_run, env)
          IN AfterStep("install_redis_from_source", 0, IF r = "ok" THEN "ok" ELSE "raise", r,
                       engine_fault(dry_run, env), reported_version(dry_run, env, r))

\* install_instance(ssh, cfg, port)
InstallInstance ==
    /\ AtStep("install_instance")
    /\ \E env \in UncheckedEnvs :
          AfterStep("install_instance", HostPipeline(cfg)[si].port,
                       install_instance(dry_run, env), "SSHException", "none", <<>>)

\* setup_exporters_on_host(ssh, cfg)
SetupExporters ==
    /\ AtStep("setup_exporters_on_host")
    /\ \E env \in UncheckedEnvs :
          AfterStep("setup_exporters_on_host", 0,
                       setup_exporters_on_host(dry_run, env), "SSHException", "none", <<>>)

\* validate_exporters(ssh, cfg)
ValidateExporters ==
    /\ AtStep("validate_exporters")
    /\ \E env \in UncheckedEnvs :
          AfterStep("validate_exporters", 0,
                       validate_exporters(dry_run, env), "SSHException", "none", <<>>)

(* ------------------------------ cluster.py ----------------------------- *)
\* f"{m.host}:{m.port}"
addr(m) == m.host \o ":" \o ToString(m.port)

\* build_cluster_create_command without the replicas_per_master > 0 test (mutant)
build_cluster_create_command_noReplicas(masters, replicas_per_master) ==
    <<"redis-cli", "--cluster", "create">>
    \o [k \in 1..Len(masters) |-> addr(masters[k])]
    \o <<"--cluster-yes">>

\* build_cluster_create_command: the words of the command line, which the
\* code joins with single spaces
build_cluster_create_command(masters, replicas_per_master) ==
    <<"redis-cli", "--cluster", "create">>
    \o [k \in 1..Len(masters) |-> addr(masters[k])]
    \o <<"--cluster-yes">>
    \o (IF replicas_per_master > 0
        THEN <<"--cluster-replicas", ToString(replicas_per_master)>>
        ELSE <<>>)

\* create_cluster(cfg, dry_run): plans again, connects to the host of the
\* first master and runs the command there without looking at its exit code
CreateCluster ==
    /\ pc = "create_cluster"
    /\ \E ok_at \in 0..Retries, env \in UncheckedEnvs :
          LET masters == assign_roles(cfg).masters
              first_master == masters[1]
              c == connect(dry_run, ok_at)
              res == unchecked(dry_run, env)
              e1 == ConnectEntry(0, first_master.host, c)
              command == build_cluster_create_command(masters, cfg.cluster.replicas_per_master)
              e2 == [Entry(0, first_master.host, "cluster_create", 0, Seen(res))
                         EXCEPT !.command = command,
                                !.open = Len(Opened(conn, first_master.host, c))]
          IN /\ conn' = With(conn, first_master.host, c)
             /\ IF c.raised
                THEN log' = Append(log, e1) /\ Exit("Failed to connect") /\ UNCHANGED failed_at
                ELSE /\ log' = log \o <<e1, e2>>
                     /\ failed_at' = Noted(res, Len(log) + 2)
                     /\ IF res = "raise"
                        THEN Exit("SSHException")
                        ELSE pc' = "validate_cluster" /\ UNCHANGED result
    /\ UNCHANGED <<cfg, prior, remote, cmd, dry_run, plan, hi, si, vi, failed_instances>>

(* ------------------------------ validate.py ---------------------------- *)
AfterValidation ==
    IF cmd = "deploy" THEN pc' = "provision_grafana" /\ UNCHANGED result
    ELSE Exit("ok")

\* validate_cluster up to the probe loop: a dry run returns at once
ValidateCluster ==
    /\ pc = "validate_cluster"
    /\ IF cmd = "deploy" /\ dry_run
       THEN AfterValidation /\ UNCHANGED vi
       ELSE pc' = "probe" /\ vi' = 1 /\ UNCHANGED result
    /\ UNCHANGED <<cfg, prior, remote, cmd, dry_run, plan, hi, si, log, conn, failed_instances, failed_at>>

PingResp == [code : {0, 1}, out : {"PONG", ""}]

\* _validate_single_instance: "ok" when it returns, else the error raised
\* (its SSH client is never a dry-run one).  The memory figures read after
\* the ping only produce a warning in the local log.
validate_single_instance(ok_at, ping) ==
    IF connect(FALSE, ok_at).raised THEN "Failed to connect"
    ELSE IF ping.code # 0 THEN "Redis not responding to ping"
    ELSE IF ping.out # "PONG" THEN "Redis ping returned unexpected response"
    ELSE "ok"

\* What the host does to a probe: refuses every connection attempt, fails the
\* ping command or answers something else than PONG.
probe_fault(ok_at, ping) ==
    IF ok_at \notin 1..Retries THEN "unreachable"
    ELSE IF ping.code # 0 THEN "ping failed"
    ELSE IF ping.out # "PONG" THEN "unexpected reply"
    ELSE "none"

\* the probe loop leaving at the first instance that fails (mutant)
ValidateInstance_shortCircuit ==
    /\ pc = "probe"
    /\ \E ok_at \in 0..Retries, ping \in PingResp :
          LET instance == enumerate_instances(cfg)[vi]
              r == validate_single_instance(ok_at, ping)
          IN /\ log' = Append(log, [Entry(0, instance.host, "ping", instance.port,
                                          IF r = "ok" THEN "ok" ELSE "raise")
                                        EXCEPT !.sent = TRUE,
                                               !.cause = probe_fault(ok_at, ping),
                                               !.attempts = Made(connect(FALSE, ok_at)),
                                               !.open = Len(Opened(conn, instance.host,
                                                                   connect(FALSE, ok_at)))])
             /\ conn' = With(conn, instance.host, connect(FALSE, ok_at))
             /\ failed_instances' = IF r = "ok" THEN failed_instances
                                    ELSE Append(failed_instances, <<instance, r>>)
             /\ IF vi < Len(enumerate_instances(cfg)) /\ r = "ok"
                THEN vi' = vi + 1 /\ UNCHANGED pc
                ELSE vi' = 0 /\ pc' = "verdict"
    /\ UNCHANGED <<cfg, prior, remote, cmd, dry_run, plan, hi, si, failed_at, result>>

\* one iteration of the probe loop of validate_cluster: every exception is
\* caught and the instance appended to failed_instances with its message
ValidateInstance ==
    /\ pc = "probe"
    /\ \E ok_at \in 0..Retries, ping \in PingResp :
          LET instance == enumerate_instances(cfg)[vi]
              r == validate_single_instance(ok_at, ping)
          IN /\ log' = Append(log, [Entry(0, instance.host, "ping", instance.port,
                                          IF r = "ok" THEN "ok" ELSE "raise")
                                        EXCEPT !.sent = TRUE,
                                               !.cause = probe_fault(ok_at, ping),
                                               !.attempts = Made(connect(FALSE, ok_at)),
                                               !.open = Len(Opened(conn, instance.host,
                                                                   connect(FALSE, ok_at)))])
             /\ conn' = With(conn, instance.host, connect(FALSE, ok_at))
             /\ failed_instances' = IF r = "ok" THEN failed_instances
                                    ELSE Append(failed_instances, <<instance, r>>)
    /\ IF vi < Len(enumerate_instances(cfg))
       THEN vi' = vi + 1 /\ UNCHANGED pc
       ELSE vi' = 0 /\ pc' = "verdict"
    /\ UNCHANGED <<cfg, prior, remote, cmd, dry_run, plan, hi, si, failed_at, result>>

\* the answer to cluster info: cluster_state is the value of that key in the
\* parsed answer, "" when the answer has no such line
InfoResp == [code : {0, 1}, cluster_state : {"ok", "fail", ""}]
\* The answer to cluster nodes: the numbers of lines whose flags hold master
\* and slave, and whether some slave line is of the host of its own master
\* (which takes a slave line; the code reads no address, so it behaves the
\* same either way).
NodesResp ==
    {n \in [code : {0, 1}, master_count : 0..MaxMasters,
            replica_count : 0..(MaxMasters * MaxReplicas), colocated : BOOLEAN] :
        n.colocated => n.code = 0 /\ n.replica_count > 0}

\* _get_cluster_info without the cluster_state test that follows it (mutant)
get_cluster_info_anyState(ok_at, info) ==
    IF connect(FALSE, ok_at).raised THEN "Failed to connect"
    ELSE IF info.code # 0 THEN "Failed to query cluster info"
    ELSE IF info.cluster_state = "" THEN "KeyError"
    ELSE "ok"

\* _get_cluster_info followed by the cluster_state test of validate_cluster
get_cluster_info(ok_at, info) ==
    IF connect(FALSE, ok_at).raised THEN "Failed to connect"
    ELSE IF info.code # 0 THEN "Failed to query cluster info"
    ELSE IF info.cluster_state = "" THEN "KeyError"
    ELSE IF info.cluster_state # "ok" THEN "Cluster state is not OK"
    ELSE "ok"

\* What the representative instance does to a query: refuses the connection,
\* fails the command, or answers.
query_fault(ok_at, resp) ==
    IF ok_at \notin 1..Retries THEN "unreachable"
    ELSE IF resp.code # 0 THEN "query failed"
    ELSE "none"

\* _validate_cluster_topology expecting the counts of the deploy that formed
\* the cluster (mutant)
validate_cluster_topology_priorCounts(c, ok_at, nodes) ==
    LET d == IF prior = <<>> THEN c ELSE prior[1].cfg
    IN IF connect(FALSE, ok_at).raised THEN "Failed to connect"
       ELSE IF nodes.code # 0 THEN "Failed to query cluster nodes"
       ELSE IF nodes.master_count # d.cluster.masters THEN "Expected masters"
       ELSE IF nodes.replica_count # d.cluster.masters * d.cluster.replicas_per_master
           THEN "Expected replicas"
       ELSE "ok"

\* _validate_cluster_topology
validate_cluster_topology(c, ok_at, nodes) ==
    IF connect(FALSE, ok_at).raised THEN "Failed to connect"
    ELSE IF nodes.code # 0 THEN "Failed to query cluster nodes"
    ELSE IF nodes.master_count # c.cluster.masters THEN "Expected masters"
    ELSE IF nodes.replica_count # c.cluster.masters * c.cluster.replicas_per_master
        THEN "Expected replicas"
    ELSE "ok"

\* the last enumerated instance in the place of the first (mutant)
representative_last(c) == enumerate_instances(c)[Len(enumerate_instances(c))]

\* target = instances[0]: the instance that validate_cluster asks for the
\* cluster state and the cluster nodes
representative(c) == enumerate_instances(c)[1]

\* validate_cluster after the probe loop: the failed_instances test and the
\* cluster state read from instances[0]
ValidateState ==
    /\ pc = "verdict"
    /\ IF failed_instances # <<>>
       THEN Exit("Cluster validation failed") /\ UNCHANGED <<log, conn>>
       ELSE \E ok_at \in 0..Retries, info \in InfoResp :
               LET target == representative(cfg)
                   r == get_cluster_info(ok_at, info)
                   answered == query_fault(ok_at, info) = "none"
               IN /\ log' = Append(log, [Entry(0, target.host, "cluster_info", target.port,
                                               IF r = "ok" THEN "ok" ELSE "raise")
                                             EXCEPT !.sent = TRUE,
                                                    !.cause = query_fault(ok_at, info),
                                                    !.attempts = Made(connect(FALSE, ok_at)),
                                                    !.open = Len(Opened(conn, target.host,
                                                                        connect(FALSE, ok_at))),
                                                    !.seen = IF answered
                                                             THEN <<info.cluster_state>>
                                                             ELSE <<>>])
                  /\ conn' = With(conn, target.host, connect(FALSE, ok_at))
                  /\ IF r = "ok" THEN pc' = "topology" /\ UNCHANGED result ELSE Exit(r)
    /\ UNCHANGED <<cfg, prior, remote, cmd, dry_run, plan, hi, si, vi, failed_instances, failed_at>>

\* the end of validate_cluster: _validate_cluster_topology(cfg, target)
ValidateTopology ==
    /\ pc = "topology"
    /\ \E ok_at \in 0..Retries, nodes \in NodesResp :
          LET target == representative(cfg)
              r == validate_cluster_topology(cfg, ok_at, nodes)
              answered == query_fault(ok_at, nodes) = "none"
          IN /\ log' = Append(log, [Entry(0, target.host, "cluster_nodes", target.port,
                                          IF r = "ok" THEN "ok" ELSE "raise")
                                        EXCEPT !.sent = TRUE,
                                               !.cause = query_fault(ok_at, nodes),
                                               !.attempts = Made(connect(FALSE, ok_at)),
                                               !.open = Len(Opened(conn, target.host,
                                                                   connect(FALSE, ok_at))),
                                               !.seen = IF answered
                                                        THEN <<nodes.master_count,
                                                               nodes.replica_count>>
                                                        ELSE <<>>,
                                               !.colocated = answered /\ nodes.colocated])
             /\ conn' = With(conn, target.host, connect(FALSE, ok_at))
             /\ IF r = "ok" THEN AfterValidation ELSE Exit(r)
    /\ UNCHANGED <<cfg, prior, remote, cmd, dry_run, plan, hi, si, vi, failed_instances, failed_at>>

(* ------------------------- main.py, rollback.py ------------------------ *)
\* provision_grafana(cfg) with grafana disabled (the default), then
\* "Deployment complete"
ProvisionGrafana ==
    /\ pc = "provision_grafana"
    /\ Exit("ok")
    /\ UNCHANGED <<cfg, prior, remote, cmd, dry_run, plan, hi, si, log, conn, vi, failed_instances, failed_at>>

\* the commands of rollback_host for one host, in order
RollbackPlan(c) ==
    LET ports == IF c.ports.count_per_host <= 0 THEN <<>>
                 ELSE [i \in 1..c.ports.count_per_host |-> c.ports.base + (i - 1)]
        of(port) == <<Step("stop", port), Step("disable", port),
                      Step("rm_unit", port), Step("rm_conf", port)>>
        RECURSIVE all(_)
        all(k) == IF k > Len(ports) THEN <<>> ELSE of(ports[k]) \o all(k + 1)
    IN all(1) \o <<Step("daemon_reload", 0)>>

\* rollback_effect with systemctl enable in the place of disable (mutant)
rollback_effect_enable(op, st) ==
    CASE op = "stop" -> [st EXCEPT !.active = "no"]
      [] op = "disable" -> [st EXCEPT !.enabled = IF st.unit = "no" THEN @ ELSE "yes"]
      [] op = "rm_unit" -> [st EXCEPT !.unit = "no"]
      [] op = "rm_conf" -> [st EXCEPT !.conf = "no"]
      [] OTHER -> st

\* what a command of rollback_host leaves of redis-<port> when the host
\* carries it out: systemctl stop, systemctl disable, rm -f of the unit file,
\* rm -f of the config file
rollback_effect(op, st) ==
    CASE op = "stop" -> [st EXCEPT !.active = "no"]
      [] op = "disable" -> [st EXCEPT !.enabled = "no"]
      [] op = "rm_unit" -> [st EXCEPT !.unit = "no"]
      [] op = "rm_conf" -> [st EXCEPT !.conf = "no"]
      [] OTHER -> st

\* rollback_host(cfg, host, ports, dry_run): with SSH(creds, dry_run) as ssh
RollbackConnect ==
    /\ pc = "rollback"
    /\ \E ok_at \in 0..Retries :
          LET host == cfg.nodes[hi]
              c == connect(dry_run, ok_at)
          IN /\ log' = Append(log, ConnectEntry(hi, host, c))
             /\ conn' = Opened(conn, host, c)
             /\ IF c.raised
                THEN Exit("Failed to connect") /\ UNCHANGED si
                ELSE pc' = "rollback_step" /\ si' = 1 /\ UNCHANGED result
    /\ UNCHANGED <<cfg, prior, remote, cmd, dry_run, plan, hi, vi, failed_instances, failed_at>>

\* the host carried the command out and it exited non-zero
run_fault(dry, env) == ~dry /\ ~env.exc /\ env.code # 0

\* a call of ssh.run that raises RuntimeError when the command exits non-zero
\* in the place of one that drops the exit code (mutant)
rollback_run_checked(dry, env) ==
    IF dry THEN "ok"
    ELSE IF env.exc \/ env.code # 0 THEN "raise"
    ELSE "ok"

\* one ssh.run(...) of rollback_host: the exit code is dropped
rollback_run(dry, env) == unchecked(dry, env)

\* the next command of rollback_host on the host being rolled back; after the
\* last one the client is closed and the loop of rollback goes to the next host
RollbackStep ==
    /\ pc = "rollback_step"
    /\ \E env \in UncheckedEnvs :
          LET host == cfg.nodes[hi]
              step == RollbackPlan(cfg)[si]
              res == rollback_run(dry_run, env)
              last == si = Len(RollbackPlan(cfg))
              inst == Instance(host, step.port)
          IN /\ log' = Append(log, Entry(hi, host, step.op, step.port, Seen(res)))
             /\ failed_at' = IF run_fault(dry_run, env) /\ failed_at = 0
                             THEN Len(log) + 1 ELSE failed_at
             /\ remote' = IF res = "ok" /\ ~dry_run /\ step.op # "daemon_reload"
                          THEN [remote EXCEPT ![inst] = rollback_effect(step.op, @)]
                          ELSE remote
             /\ IF res = "raise"
                THEN /\ conn' = SSH_close(conn, host)
                     /\ Exit("SSHException")
                     /\ UNCHANGED <<hi, si>>
                ELSE IF ~last
                THEN /\ si' = si + 1
                     /\ UNCHANGED <<pc, result, hi, conn>>
                ELSE /\ conn' = SSH_close(conn, host)
                     /\ si' = 0
                     /\ IF hi < Len(cfg.nodes)
                        THEN pc' = "rollback" /\ hi' = hi + 1 /\ UNCHANGED result
                        ELSE hi' = 0 /\ Exit("ok")
    /\ UNCHANGED <<cfg, prior, cmd, dry_run, plan, vi, failed_instances>>

\* The rollback command invoked once more, on the same topology, after a
\* rollback that completed with every command carried out by its host.
Rerun ==
    /\ pc = "exit"
    /\ cmd = "rollback"
    /\ result = "ok"
    /\ failed_at = 0
    /\ prior = <<>>
    /\ prior' = <<[cfg |-> cfg, remote |-> remote]>>
    /\ pc' = "start"
    /\ hi' = 0
    /\ si' = 0
    /\ log' = <<>>
    /\ conn' = <<>>
    /\ failed_at' = 0
    /\ result' = "none"
    /\ UNCHANGED <<cfg, remote, cmd, dry_run, plan, vi, failed_instances>>

\* The validate command invoked after a deploy that formed a cluster and
\* completed, on the same topology file with cluster.masters edited (or left
\* as it was): a new process, which starts with nothing of the deploy's.
Revalidate ==
    /\ pc = "exit"
    /\ cmd = "deploy"
    /\ ~dry_run
    /\ result = "ok"
    /\ cfg.cluster.create
    /\ prior = <<>>
    /\ prior' = <<[cfg |-> cfg, remote |-> remote]>>
    /\ remote' = remote
    /\ \E p \in 1..MaxMasters : cfg' = [cfg EXCEPT !.cluster.masters = p]
    /\ cmd' = "validate"
    /\ dry_run' = FALSE
    /\ pc' = "start"
    /\ plan' = NoPlan
    /\ hi' = 0
    /\ si' = 0
    /\ log' = <<>>
    /\ conn' = <<>>
    /\ vi' = 0
    /\ failed_instances' = <<>>
    /\ failed_at' = 0
    /\ result' = "none"

Next ==
    \/ LoadConfig
    \/ AssignRoles
    \/ Connect
    \/ DisableSwap
    \/ InstallRedis
    \/ InstallInstance
    \/ SetupExporters
    \/ ValidateExporters
    \/ CreateCluster
    \/ ValidateCluster
    \/ ValidateInstance
    \/ ValidateState
    \/ ValidateTopology
    \/ ProvisionGrafana
    \/ RollbackConnect
    \/ RollbackStep
    \/ Revalidate

Spec == Init /\ [][Next]_vars

(* --------------------------- planning harness -------------------------- *)
\* tests/test_placement.py: minimal_cfg loads the topology, the test plans it
PlanTopologies ==
    {Topology(n, b, k, m, r, FALSE, TRUE) :
        n \in SeqsUpTo(Hosts, PlanMaxNodes), b \in PortBases,
        k \in 0..PlanMaxPorts, m \in 0..PlanMaxMasters, r \in 0..PlanMaxReplicas}

PlanInit ==
    /\ cfg \in PlanTopologies
    /\ prior = <<>>
    /\ remote = Fresh(cfg)
    /\ cmd = "test"
    /\ dry_run = FALSE
    /\ Start

PlanNext == LoadConfig \/ AssignRoles

PlanSpec == PlanInit /\ [][PlanNext]_vars

\* One more iteration of the primary-selection loop once it can place nothing
\* and leave by neither exit: host_index moves on to the next host of the
\* rotation (hi keeps host_index % len(cfg.nodes)), nothing else changes.
Rotate ==
    /\ pc = "hang"
    /\ hi' = (hi + 1) % Len(cfg.nodes)
    /\ UNCHANGED <<cfg, prior, remote, cmd, dry_run, pc, plan, si, log, conn, vi,
                   failed_instances, failed_at, result>>

\* the same with the program running on: a call that can return does return,
\* a loop that can go round goes round
PlanLive == PlanInit /\ [][PlanNext \/ Rotate]_vars /\ WF_vars(PlanNext \/ Rotate)

(* ------------------------ direct planning harness ---------------------- *)
\* assign_roles called on a TopologyConfig built with its constructor, which
\* runs no validation: whatever the fields hold is planned
DirectInit ==
    /\ cfg \in PlanTopologies
    /\ prior = <<>>
    /\ remote = Fresh(cfg)
    /\ cmd = "test"
    /\ dry_run = FALSE
    /\ plan = NoPlan
    /\ pc = "loaded"
    /\ hi = 0
    /\ si = 0
    /\ log = <<>>
    /\ conn = <<>>
    /\ vi = 0
    /\ failed_instances = <<>>
    /\ failed_at = 0
    /\ result = "none"

DirectSpec == DirectInit /\ [][AssignRoles]_vars

(* --------------------------- rollback harness -------------------------- *)
\* the rollback command on hosts found in any state, run twice in a row
RollbackMaxNodes == 2
RollbackMaxPorts == 2
RollbackMaxInstances == 2

Running == [unit |-> "yes", conf |-> "yes", active |-> "yes", enabled |-> "yes"]

Stopped == [unit |-> "yes", conf |-> "yes", active |-> "no", enabled |-> "no"]

RollbackTopologies ==
    {t \in {Topology(n, 7000, k, 1, 0, FALSE, FALSE) :
                n \in SeqsUpTo(DeployHosts, RollbackMaxNodes), k \in 0..RollbackMaxPorts} :
        /\ total_instances(t) <= RollbackMaxInstances
        /\ t.nodes # <<>> => t.nodes[1] = "a"}

RollbackInit ==
    /\ cfg \in RollbackTopologies
    /\ prior = <<>>
    /\ remote \in [Range(enumerate_instances(cfg)) -> {Absent, Installed, Running, Stopped}]
    /\ cmd = "rollback"
    /\ dry_run \in BOOLEAN
    /\ Start

RollbackNext == LoadConfig \/ RollbackConnect \/ RollbackStep \/ Rerun

RollbackSpec == RollbackInit /\ [][RollbackNext]_vars

(* -------------------------- connection harness ------------------------- *)
\* SSH.connect called by itself on a client made for the topology's host with
\* the retry count of the topology's SSH policy
MaxRetries == 4

ConnectTopologies ==
    {[Topology(<<h>>, 7000, 1, 1, 0, FALSE, FALSE) EXCEPT !.ssh.connection_retries = r] :
        h \in Hosts, r \in 0..MaxRetries}

ConnectInit ==
    /\ cfg \in ConnectTopologies
    /\ prior = <<>>
    /\ remote = Fresh(cfg)
    /\ cmd = "connect"
    /\ dry_run \in BOOLEAN
    /\ Start

\* ssh = SSH(creds, dry_run=dry_run, retries=cfg.ssh.connection_retries)
\* ssh.connect()
SSHConnect ==
    /\ pc = "start"
    /\ cmd = "connect"
    /\ \E outcomes \in [1..cfg.ssh.connection_retries -> AttemptOutcomes] :
          LET host == cfg.nodes[1]
              c == SSH_connect(dry_run, host, cfg.ssh.connection_retries, outcomes)
          IN /\ log' = Append(log, [Entry(1, host, "connect", 0,
                                          IF c.raised THEN "raise" ELSE "ok")
                                       EXCEPT !.attempts = Attempts(c.events),
                                              !.events = c.events,
                                              !.error = c.error])
             /\ conn' = Opened(conn, host, c)
             /\ Exit(IF c.raised THEN "Failed to connect" ELSE "ok")
    /\ UNCHANGED <<cfg, prior, remote, cmd, dry_run, plan, hi, si, vi, failed_instances, failed_at>>

ConnectSpec == ConnectInit /\ [][SSHConnect]_vars

(* ---------------------------- policy harness --------------------------- *)
\* the three commands on one host with one port, for every engine version and
\* every SSH retry count that the topology file sets
PolicyTopologies ==
    {[Topology(<<"a">>, 7000, 1, 1, 0, cr, sw)
         EXCEPT !.redis_version = v, !.ssh.connection_retries = r] :
        cr \in BOOLEAN, sw \in BOOLEAN, v \in Versions, r \in 1..MaxRetries}

PolicyInit ==
    /\ cfg \in PolicyTopologies
    /\ prior = <<>>
    /\ remote = Fresh(cfg)
    /\ cmd \in {"deploy", "validate", "rollback"}
    /\ dry_run \in (IF cmd = "validate" THEN {FALSE} ELSE BOOLEAN)
    /\ Start

PolicySpec == PolicyInit /\ [][Next]_vars

(* ----------------------------- host harness ---------------------------- *)
\* One host in full, to follow what the operations leave on it: its files by
\* path, its services by unit name, the swap, the kernel settings, the users
\* and the packages.  A file is its lines, a directory has none.
File(lines) == [kind |-> "file", owner |-> "root", lines |-> lines]

Dir == [kind |-> "dir", owner |-> "root", lines |-> <<>>]

Write(files, path, f) ==
    [q \in DOMAIN files \cup {path} |-> IF q = path THEN f ELSE files[q]]

\* mkdir -p
Mkdir(files, path) == IF path \in DOMAIN files THEN files ELSE Write(files, path, Dir)

\* rm -f, rm -rf
Rm(files, path) == [q \in DOMAIN files \ {path} |-> files[q]]

\* chown -R redis:redis path: fails, changing nothing, without the user
Chown(m, path) ==
    IF "redis" \in m.users /\ path \in DOMAIN m.files
    THEN [m EXCEPT !.files[path].owner = "redis"]
    ELSE m

\* SSH.put_text opening the file to append to it (mutant)
put_text_append(m, path, lines) ==
    [m EXCEPT !.files = Write(@, path,
        File((IF path \in DOMAIN @ THEN @[path].lines ELSE <<>>) \o lines))]

\* SSH.put_text: sftp.file(remote_path, "w") truncates the file, write fills it
put_text(m, path, lines) == [m EXCEPT !.files = Write(@, path, File(lines))]

\* systemctl enable / restart: they need the unit file, and the service stays
\* up only with its executable in place
Enable(m, unit, unit_file) ==
    IF unit_file \in DOMAIN m.files THEN [m EXCEPT !.services[unit].enabled = TRUE] ELSE m

Restart(m, unit, unit_file, exec) ==
    IF unit_file \in DOMAIN m.files
    THEN [m EXCEPT !.services[unit].active = exec \in DOMAIN m.files]
    ELSE m

Stop(m, unit) == [m EXCEPT !.services[unit].active = FALSE]

Disable(m, unit) == [m EXCEPT !.services[unit].enabled = FALSE]

\* paths and unit names, with the defaults of PathsConfig
ConfigDir == "/etc/redis"
DataDir == "/var/lib/redis"
LogDir == "/var/log/redis"
InstallPrefix == "/usr/local"
conf_path(port) == ConfigDir \o "/redis-" \o ToString(port) \o ".conf"
unit_path(port) == "/etc/systemd/system/redis-" \o ToString(port) \o ".service"
data_dir(port) == DataDir \o "/" \o ToString(port)
redis_unit(port) == "redis-" \o ToString(port) \o ".service"
redis_server == InstallPrefix \o "/bin/redis-server"
exporter_unit_path(port) == "/etc/systemd/system/redis_exporter_" \o ToString(port) \o ".service"
exporter_unit(port) == "redis_exporter_" \o ToString(port)
redis_exporter == "/usr/local/bin/redis_exporter"
node_exporter == "/usr/local/bin/node_exporter"
node_exporter_unit_path == "/etc/systemd/system/node_exporter.service"
sysctl_conf == "/etc/sysctl.d/99-redis.conf"

\* the lines of the rendered files that depend on the port or the topology
render_redis_conf(c, port) ==
    <<"port " \o ToString(port),
      "cluster-enabled yes",
      "cluster-config-file nodes-" \o ToString(port) \o ".conf",
      "dir " \o data_dir(port),
      "pidfile /var/run/redis-" \o ToString(port) \o ".pid",
      "logfile " \o LogDir \o "/redis-" \o ToString(port) \o ".log",
      "appendonly yes",
      "syslog-ident redis-" \o ToString(port)>>

render_systemd_service(c, port) ==
    <<"Description=Redis Instance " \o ToString(port),
      "User=redis",
      "ExecStart=" \o redis_server \o " " \o conf_path(port),
      "ExecStop=" \o InstallPrefix \o "/bin/redis-cli -p " \o ToString(port) \o " shutdown",
      "Restart=always">>

\* What can be wrong on the host while one operation runs: nothing, systemd
\* not answering (every systemctl command exits non-zero and changes nothing),
\* the SFTP channel broken (put_text raises), the compiler failing.
HostFaults == {"none", "systemctl", "sftp", "make"}

Returns(m) == [m |-> m, res |-> "ok"]
Raises(m) == [m |-> m, res |-> "raise"]

\* ensure_dirs
ensure_dirs(m, port) ==
    LET made == [m EXCEPT !.files = Mkdir(Mkdir(Mkdir(@, ConfigDir), data_dir(port)), LogDir)]
    IN Chown(Chown(made, data_dir(port)), LogDir)

\* install_instance on the host: the state it leaves and whether it raised
install_instance_effect(dry, m, c, port, fault) ==
    IF dry THEN Returns(m)
    ELSE LET dirs == ensure_dirs(m, port)
         IN IF fault = "sftp" THEN Raises(dirs)
            ELSE LET conf == put_text(dirs, conf_path(port), render_redis_conf(c, port))
                     unit == put_text(conf, unit_path(port), render_systemd_service(c, port))
                 IN IF fault = "systemctl" THEN Returns(unit)
                    ELSE Returns(Restart(Enable(unit, redis_unit(port), unit_path(port)),
                                         redis_unit(port), unit_path(port), redis_server))

\* a line of /etc/fstab: the kind of file system, and whether it is commented
SwapLine == [fs |-> "swap", commented |-> FALSE]
RootLine == [fs |-> "ext4", commented |-> FALSE]

\* sed -ri 's/^\s*([^#]\S+\s+\S+\s+swap\s+...)$/# \1/' /etc/fstab: comments
\* out the swap lines that are not comments yet
comment_swap(lines) ==
    [k \in 1..Len(lines) |->
        IF lines[k].fs = "swap" /\ ~lines[k].commented
        THEN [lines[k] EXCEPT !.commented = TRUE] ELSE lines[k]]

\* disable_swap with its default swap_config
disable_swap_effect(dry, m, fault) ==
    IF dry THEN Returns(m)
    ELSE LET off == [m EXCEPT !.swap = FALSE,
                              !.fstab = comment_swap(@),
                              !.sysctl = [swappiness |-> 1, overcommit_memory |-> 1],
                              !.files = Mkdir(@, "/etc/sysctl.d")]
         IN IF fault = "sftp" THEN Raises(off)
            ELSE Returns(put_text(off, sysctl_conf,
                                  <<"vm.swappiness=1", "vm.overcommit_memory=1">>))

\* install_redis_from_source on a host that passes the requirements check:
\* the build tools, the user, the build in /tmp/redis-src, the installed
\* binaries, the build directory removed at the end
install_redis_effect(dry, m, c, fault) ==
    IF dry THEN Returns(m)
    ELSE LET src == [m EXCEPT !.packages = @ \cup {"gcc", "make", "tcl", "wget", "tar"},
                              !.users = @ \cup {"redis"},
                              !.files = Mkdir(@, "/tmp/redis-src")]
         IN IF fault = "make" THEN Raises(src)
            ELSE Returns([src EXCEPT !.files =
                     Rm(Write(Write(@, redis_server, File(<<"redis-server " \o c.redis_version>>)),
                              InstallPrefix \o "/bin/redis-cli",
                              File(<<"redis-cli " \o c.redis_version>>)),
                        "/tmp/redis-src")])

\* install_node_exporter
install_node_exporter(m, fault) ==
    LET bin == [m EXCEPT !.files = Write(Mkdir(@, "/tmp/node_exporter-1.8.2.linux-amd64"),
                                         node_exporter, File(<<"node_exporter 1.8.2">>))]
    IN IF fault = "sftp" THEN Raises(bin)
       ELSE LET unit == put_text(bin, node_exporter_unit_path,
                                 <<"Description=Prometheus Node Exporter",
                                   "ExecStart=" \o node_exporter>>)
            IN IF fault = "systemctl" THEN Returns(unit)
               ELSE Returns(Restart(Enable(unit, "node_exporter", node_exporter_unit_path),
                                    "node_exporter", node_exporter_unit_path, node_exporter))

\* install_redis_exporter_instance
install_redis_exporter_instance(m, port, fault) ==
    LET bin == [m EXCEPT !.files = Write(Mkdir(@, "/tmp/redis_exporter-v1.58.0.linux-amd64"),
                                         redis_exporter, File(<<"redis_exporter 1.58.0">>))]
    IN IF fault = "sftp" THEN Raises(bin)
       ELSE LET unit == put_text(bin, exporter_unit_path(port),
                                 <<"Description=Redis Exporter " \o ToString(port),
                                   "ExecStart=" \o redis_exporter
                                       \o " --redis.addr=redis://127.0.0.1:" \o ToString(port)>>)
            IN IF fault = "systemctl" THEN Returns(unit)
               ELSE Returns(Restart(Enable(unit, exporter_unit(port), exporter_unit_path(port)),
                                    exporter_unit(port), exporter_unit_path(port), redis_exporter))

PortsOf(c) ==
    IF c.ports.count_per_host <= 0 THEN <<>>
    ELSE [i \in 1..c.ports.count_per_host |-> c.ports.base + (i - 1)]

\* setup_exporters_on_host, both exporters enabled as they are by default
RECURSIVE exporters_from(_, _, _, _)
exporters_from(m, c, i, fault) ==
    IF i > Len(PortsOf(c)) THEN Returns(m)
    ELSE LET r == install_redis_exporter_instance(m, PortsOf(c)[i], fault)
         IN IF r.res = "raise" THEN r ELSE exporters_from(r.m, c, i + 1, fault)

setup_exporters_effect(dry, m, c, fault) ==
    IF dry THEN Returns(m)
    ELSE LET r == install_node_exporter(m, fault)
         IN IF r.res = "raise" THEN r ELSE exporters_from(r.m, c, 1, fault)

\* one operation of the host pipeline on the host
step_effect(dry, m, c, step, fault) ==
    CASE step.op = "disable_swap" -> disable_swap_effect(dry, m, fault)
      [] step.op = "install_redis_from_source" -> install_redis_effect(dry, m, c, fault)
      [] step.op = "install_instance" -> install_instance_effect(dry, m, c, step.port, fault)
      [] step.op = "setup_exporters_on_host" -> setup_exporters_effect(dry, m, c, fault)
      [] OTHER -> Returns(m)

\* the body of deploy's loop for one host: the operations of HostPipeline in
\* their order, left at the first one that raises
RECURSIVE pipeline_from(_, _, _, _, _)
pipeline_from(dry, m, c, k, fault) ==
    IF k > Len(HostPipeline(c)) THEN Returns(m)
    ELSE LET r == step_effect(dry, m, c, HostPipeline(c)[k], fault)
         IN IF r.res = "raise" THEN r ELSE pipeline_from(dry, r.m, c, k + 1, fault)

host_pipeline_effect(dry, m, c, fault) == pipeline_from(dry, m, c, 1, fault)

\* the commands of rollback_host for one port
rollback_port(m, c, port, fault) ==
    LET down == IF fault = "systemctl" THEN m
                ELSE Disable(Stop(m, redis_unit(port)), redis_unit(port))
    IN [down EXCEPT !.files = Rm(Rm(@, unit_path(port)), conf_path(port))]

\* rollback_host removing the data directory and the exporter of the port as
\* well (mutant)
RECURSIVE rollback_host_purge(_, _, _, _, _)
rollback_host_purge(dry, m, c, ports, fault) ==
    IF dry \/ ports = <<>> THEN Returns(m)
    ELSE LET r == rollback_port(m, c, Head(ports), fault)
         IN rollback_host_purge(dry,
                [r EXCEPT !.files = Rm(Rm(@, data_dir(Head(ports))),
                                       exporter_unit_path(Head(ports))),
                          !.services[exporter_unit(Head(ports))].active = FALSE],
                c, Tail(ports), fault)

\* rollback_host: for port in ports the four commands, then daemon-reload,
\* which re-reads the unit files and changes nothing of what is kept here
RECURSIVE rollback_host_effect(_, _, _, _, _)
rollback_host_effect(dry, m, c, ports, fault) ==
    IF dry \/ ports = <<>> THEN Returns(m)
    ELSE rollback_host_effect(dry, rollback_port(m, c, Head(ports), fault), c, Tail(ports), fault)

\* the host before anything was deployed to it
Units(c) ==
    {redis_unit(PortsOf(c)[i]) : i \in 1..Len(PortsOf(c))}
        \cup {exporter_unit(PortsOf(c)[i]) : i \in 1..Len(PortsOf(c))}
        \cup {"node_exporter"}

Pristine(c) ==
    [files |-> [q \in {} |-> Dir],
     fstab |-> <<RootLine, SwapLine>>,
     services |-> [u \in Units(c) |-> [active |-> FALSE, enabled |-> FALSE]],
     swap |-> TRUE,
     sysctl |-> [swappiness |-> 60, overcommit_memory |-> 0],
     users |-> {},
     packages |-> {}]

\* The operator running, one after the other, up to MaxRuns of: the host's
\* part of a deploy, install_instance for one port, rollback_host.  remote is
\* the host in full; each log line keeps the host before and after the run.
HostMaxPorts == 2
MaxRuns == 3

HostTopologies ==
    {Topology(<<"a">>, 7000, k, 1, 0, FALSE, sw) : k \in 1..HostMaxPorts, sw \in BOOLEAN}

HostInit ==
    /\ cfg \in HostTopologies
    /\ prior = <<>>
    /\ remote = Pristine(cfg)
    /\ cmd = "host"
    /\ dry_run \in BOOLEAN
    /\ plan = NoPlan
    /\ pc = "run"
    /\ hi = 1
    /\ si = 0
    /\ log = <<>>
    /\ conn = <<>>
    /\ vi = 0
    /\ failed_instances = <<>>
    /\ failed_at = 0
    /\ result = "none"

Ran(op, port, fault, r) ==
    /\ log' = Append(log, [Entry(hi, cfg.nodes[hi], op, port, r.res)
                               EXCEPT !.cause = fault, !.seen = <<remote, r.m>>])
    /\ remote' = r.m
    /\ UNCHANGED <<cfg, prior, cmd, dry_run, pc, plan, hi, si, conn, vi, failed_instances,
                   failed_at, result>>

\* the body of deploy's loop for the host (main.py, deploy)
RunHostPipeline ==
    /\ pc = "run"
    /\ Len(log) < MaxRuns
    /\ \E fault \in HostFaults :
          Ran("host_pipeline", 0, fault, host_pipeline_effect(dry_run, remote, cfg, fault))

\* install_instance(ssh, cfg, port)
RunInstallInstance ==
    /\ pc = "run"
    /\ Len(log) < MaxRuns
    /\ \E port \in Range(PortsOf(cfg)), fault \in HostFaults \ {"make"} :
          Ran("install_instance", port, fault,
              install_instance_effect(dry_run, remote, cfg, port, fault))

\* rollback_host(cfg, host, ports, dry_run)
RunRollbackHost ==
    /\ pc = "run"
    /\ Len(log) < MaxRuns
    /\ \E fault \in {"none", "systemctl"} :
          Ran("rollback_host", 0, fault,
              rollback_host_effect(dry_run, remote, cfg, PortsOf(cfg), fault))

HostNext == RunHostPipeline \/ RunInstallInstance \/ RunRollbackHost

HostSpec == HostInit /\ [][HostNext]_vars

(* ------------------------------- claims -------------------------------- *)
SameTopology(c, nodes, count, masters, rpm) ==
    /\ c.nodes = nodes
    /\ c.ports.count_per_host = count
    /\ c.cluster.masters = masters
    /\ c.cluster.replicas_per_master = rpm

Returned == plan.status = "ok"

HostsOf(s) == {s[k].host : k \in 1..Len(s)}

\* C1: for hosts [a,b,c] with 2 ports each, primary_count 3 and one replica
\* per primary, assign_roles raises nothing and returns 3 primaries with one
\* replica each, every replica on another host than its primary.
C1_TestTopologySucceeds ==
    (SameTopology(cfg, <<"a", "b", "c">>, 2, 3, 1) /\ pc \in {"exit", "hang"})
        => /\ plan.status = "ok"
           /\ Len(plan.masters) = 3
           /\ \A m \in Range(plan.masters) :
                  Len(plan.replicas[m]) = 1 /\ plan.replicas[m][1].host # m.host

\* C2: anti-affinity: in every returned placement no replica of a primary is
\* on that primary's host.
C2_AntiAffinity ==
    plan.status = "ok" =>
        \A m \in Range(plan.masters) :
            \A k \in 1..Len(plan.replicas[m]) : plan.replicas[m][k].host # m.host

C2_Witness ==
    /\ Returned
    /\ \E m \in Range(plan.masters) : Len(plan.replicas[m]) >= 2
    /\ Cardinality(HostsOf(plan.masters)) >= 2

\* C3: uniqueness: a placement returned for a validated topology lists no
\* endpoint twice across the primaries and all replica lists.
C3_Uniqueness ==
    Returned =>
        /\ \A i, j \in 1..Len(plan.masters) : i # j => plan.masters[i] # plan.masters[j]
        /\ \A m \in Range(plan.masters) :
              /\ \A i, j \in 1..Len(plan.replicas[m]) :
                     i # j => plan.replicas[m][i] # plan.replicas[m][j]
              /\ ~InSeq(m, plan.replicas[m])
              /\ \A m2 \in Range(plan.masters) \ {m} :
                     /\ ~InSeq(m2, plan.replicas[m])
                     /\ Range(plan.replicas[m]) \cap Range(plan.replicas[m2]) = {}

PrimariesOn(h) == Cardinality({k \in 1..Len(plan.masters) : plan.masters[k].host = h})

\* C5: round-robin distribution: with primary_count at most the number of
\* hosts the primaries are on pairwise distinct hosts, and in general the
\* numbers of primaries on two hosts differ by at most 1.
C5_RoundRobin ==
    Returned =>
        /\ cfg.cluster.masters <= Cardinality(Range(cfg.nodes)) =>
              Cardinality(HostsOf(plan.masters)) = Len(plan.masters)
        /\ \A h1, h2 \in Range(cfg.nodes) : PrimariesOn(h1) - PrimariesOn(h2) <= 1

\* C6: result shape: a placement returned for a validated topology has
\* exactly primary_count primaries, the replica mapping has exactly the
\* primaries as keys, and every replica list has replicas_per_primary entries.
C6_ResultShape ==
    Returned =>
        /\ Len(plan.masters) = cfg.cluster.masters
        /\ DOMAIN plan.replicas = Range(plan.masters)
        /\ \A m \in Range(plan.masters) :
              Len(plan.replicas[m]) = cfg.cluster.replicas_per_master

C6_Witness ==
    /\ Returned
    /\ cfg.cluster.masters >= 2
    /\ cfg.cluster.replicas_per_master >= 1

\* C7: a topology with primary_count * (1 + replicas_per_primary) >
\* len(hosts) * ports_per_host is rejected with an error inside load_config:
\* no command plans it or invokes any remote operation for it.
C7_CapacityRejection ==
    cfg.cluster.masters * (1 + cfg.cluster.replicas_per_master)
            > Len(cfg.nodes) * cfg.ports.count_per_host
        => /\ pc \in {"start", "exit"}
           /\ pc = "exit" => result \notin {"none", "ok"}
           /\ plan = NoPlan
           /\ log = <<>>

C7_Witness ==
    /\ cfg.cluster.masters * (1 + cfg.cluster.replicas_per_master)
            > Len(cfg.nodes) * cfg.ports.count_per_host
    /\ cfg.cluster.masters <= Len(cfg.nodes) * cfg.ports.count_per_host
    /\ Len(cfg.nodes) = 2
    /\ cmd = "deploy"
    /\ pc = "exit"
    /\ result = "Not enough instances for masters + replicas per host/ports"

\* C8: with dry_run no remote-executor call dispatches anything to a host or
\* opens a connection, and a deploy of a validated topology (whose placement
\* was planned) runs to completion without raising an error.
C8_DryRunCompletes ==
    (cmd = "deploy" /\ dry_run)
        => /\ \A k \in 1..Len(log) : ~log[k].sent
           /\ conn = <<>>
           /\ (pc = "exit" /\ plan.status = "ok") => result = "ok"

\* C9: when install_instance fails on a port of a host, no later port of that
\* host is configured and setup_exporters_on_host is not invoked for it.
C9_AbortOrdering ==
    \A i \in 1..Len(log) :
        (log[i].op = "install_instance" /\ (i = failed_at \/ log[i].res = "raise"))
            => \A j \in (i + 1)..Len(log) :
                   log[j].hi = log[i].hi
                       => log[j].op \notin {"install_instance", "setup_exporters_on_host"}

Rank(e) ==
    CASE e.op = "connect" -> 0
      [] e.op = "disable_swap" -> 1
      [] e.op = "install_redis_from_source" -> 2
      [] e.op = "install_instance" -> 3 + (e.port - cfg.ports.base)
      [] e.op = "setup_exporters_on_host" -> 3 + cfg.ports.count_per_host
      [] OTHER -> 4 + cfg.ports.count_per_host

PrevRank(e) == IF Rank(e) = 2 /\ ~cfg.disable_swap THEN 0 ELSE Rank(e) - 1

\* C10: in a deploy the operations of one host's pipeline (one per entry of
\* the host list) occur in the order system preparation (only with
\* disable_swap), engine installation, instance configuration for the ports
\* port_base .. port_base+ports_per_host-1 ascending, exporter installation;
\* each is issued only after the step before it has finished.
C10_StepOrder ==
    cmd = "deploy" =>
        \A j \in 1..Len(log) :
            log[j].hi # 0 =>
                /\ log[j].op = "disable_swap" => cfg.disable_swap
                /\ log[j].op = "install_instance" =>
                       log[j].port \in cfg.ports.base..(cfg.ports.base + cfg.ports.count_per_host - 1)
                /\ \A i \in 1..(j - 1) : log[i].hi = log[j].hi => Rank(log[i]) < Rank(log[j])
                /\ Rank(log[j]) > 0 =>
                       \E i \in 1..(j - 1) :
                           /\ log[i].hi = log[j].hi
                           /\ Rank(log[i]) = PrevRank(log[j])
                           /\ log[i].res # "raise"

C10_Witness ==
    /\ cmd = "deploy"
    /\ ~dry_run
    /\ cfg.disable_swap
    /\ cfg.ports.count_per_host >= 2
    /\ \E j \in 1..Len(log) : log[j].hi = 2 /\ log[j].op = "setup_exporters_on_host"

\* C11: when the host fails the requirements check, the compile command, the
\* install command or the binary check of install_redis_from_source, the call
\* raises (the deploy ends with that error) and neither install_instance nor
\* setup_exporters_on_host is invoked on that host afterwards.
C11_EngineInstallFatal ==
    \A i \in 1..Len(log) :
        (log[i].op = "install_redis_from_source" /\ log[i].cause # "none")
            => /\ log[i].res = "raise"
               /\ pc = "exit"
               /\ result \notin {"none", "ok"}
               /\ \A j \in (i + 1)..Len(log) :
                      log[j].host = log[i].host
                          => log[j].op \notin {"install_instance", "setup_exporters_on_host"}

C11_Witness ==
    /\ cmd = "deploy"
    /\ pc = "exit"
    /\ result = "Failed to compile Redis"
    /\ Len(cfg.nodes) = 2
    /\ \E i \in 1..Len(log) :
           /\ log[i].op = "install_redis_from_source"
           /\ log[i].cause = "make"
           /\ log[i].hi = 2

\* C12: when the pipeline of one host of a deploy raises, the pipelines of the
\* remaining hosts of the host list are still run: a deploy that planned its
\* placement never ends before every host of the list has been worked on
\* (stated for host lists without a repeated name).
C12_ErrorsCollected ==
    (/\ cmd = "deploy" /\ pc = "exit" /\ plan.status = "ok"
     /\ Cardinality(Range(cfg.nodes)) = Len(cfg.nodes))
        => \A h \in 1..Len(cfg.nodes) : \E j \in 1..Len(log) : log[j].hi = h

\* the steps of every host's pipeline were invoked and returned before index j
PipelinesRan(j) ==
    \A h \in 1..Len(cfg.nodes) :
        \A s \in 1..Len(HostPipeline(cfg)) :
            \E i \in 1..(j - 1) :
                /\ log[i].hi = h
                /\ log[i].op = HostPipeline(cfg)[s].op
                /\ log[i].port = HostPipeline(cfg)[s].port
                /\ log[i].res = "ok"

\* C13: formation barrier: in a deploy the cluster-create command is issued
\* only after the pipeline of every host has completed successfully (every
\* step ran and returned, and no instance configuration had a remote command
\* fail), and the probes of validation come only after the cluster-create
\* command.
C13_FormationBarrier ==
    cmd = "deploy" =>
        \A j \in 1..Len(log) :
            /\ log[j].op = "cluster_create" =>
                   /\ PipelinesRan(j)
                   /\ ~(failed_at \in 1..(j - 1) /\ log[failed_at].op = "install_instance")
            /\ log[j].op \in {"ping", "cluster_info", "cluster_nodes"} =>
                   \E i \in 1..(j - 1) : log[i].op = "cluster_create"

CreateIssued == {j \in 1..Len(log) : log[j].op = "cluster_create"}

\* C14: a deploy issues the cluster-create command at most once, and exactly
\* once when it has reached validation; the command goes over a connection to
\* the host of the first primary of the plan, its endpoint addresses are the
\* plan's primaries in the plan's order, and the replicas-per-primary count is
\* attached exactly when it is greater than 0.
C14_SingleCreateCommand ==
    cmd = "deploy" =>
        /\ Cardinality(CreateIssued) <= 1
        /\ pc \in {"validate_cluster", "probe", "verdict", "topology"}
               => Cardinality(CreateIssued) = 1
        /\ \A j \in CreateIssued :
               LET c == log[j].command
                   n == Len(plan.masters)
                   rpm == cfg.cluster.replicas_per_master
               IN /\ plan.status = "ok"
                  /\ log[j].host = plan.masters[1].host
                  /\ j > 1 /\ log[j - 1].op = "connect" /\ log[j - 1].host = log[j].host
                  /\ Len(c) = 4 + n + (IF rpm > 0 THEN 2 ELSE 0)
                  /\ SubSeq(c, 1, 3) = <<"redis-cli", "--cluster", "create">>
                  /\ \A k \in 1..n : c[3 + k] = addr(plan.masters[k])
                  /\ c[4 + n] = "--cluster-yes"
                  /\ rpm > 0 => c[5 + n] = "--cluster-replicas" /\ c[6 + n] = ToString(rpm)

C14_Witness ==
    /\ cmd = "deploy"
    /\ ~dry_run
    /\ pc = "probe"
    /\ Len(plan.masters) >= 2
    /\ plan.masters[1].host # plan.masters[2].host
    /\ cfg.cluster.replicas_per_master > 0
    /\ Cardinality(CreateIssued) = 1

\* C15: when the cluster-create command fails (raises, or its remote command
\* reports failure), create_cluster raises: the deploy ends in failure with no
\* validation probe made and no completion reported, and the command is not
\* issued a second time.
C15_FormationFailureFatal ==
    \A j \in CreateIssued :
        (j = failed_at \/ log[j].res = "raise")
            => /\ pc = "exit"
               /\ result \notin {"none", "ok"}
               /\ Len(log) = j
               /\ Cardinality(CreateIssued) = 1

Pings == SelectSeq(log, LAMBDA e : e.op = "ping")

FailedPings == SelectSeq(Pings, LAMBDA e : e.cause # "none")

\* the message of the error a probe raises for what the host did
ProbeError(cause) ==
    CASE cause = "unreachable" -> "Failed to connect"
      [] cause = "ping failed" -> "Redis not responding to ping"
      [] cause = "unexpected reply" -> "Redis ping returned unexpected response"

\* C16: validate_cluster probes the enumerated endpoints one after the other
\* and goes on after a probe failed; once the loop is over every endpoint has
\* been probed, the failure list holds exactly the endpoints whose probe
\* failed (unreachable host, failed ping, unexpected reply) with their
\* reasons, and a non-empty list makes the call raise one error carrying it.
C16_NoShortCircuit ==
    /\ Len(Pings) <= Len(enumerate_instances(cfg))
    /\ \A k \in 1..Len(Pings) :
           Instance(Pings[k].host, Pings[k].port) = enumerate_instances(cfg)[k]
    /\ Pings # <<>> /\ pc # "probe" => Len(Pings) = Len(enumerate_instances(cfg))
    /\ Len(failed_instances) = Len(FailedPings)
    /\ \A k \in 1..Len(FailedPings) :
           failed_instances[k] = <<Instance(FailedPings[k].host, FailedPings[k].port),
                                   ProbeError(FailedPings[k].cause)>>
    /\ (FailedPings # <<>> /\ pc \notin {"probe", "verdict"})
           => pc = "exit" /\ result = "Cluster validation failed"

C16_Witness ==
    /\ pc = "exit"
    /\ result = "Cluster validation failed"
    /\ Len(Pings) >= 3
    /\ Pings[1].cause = "unreachable"
    /\ Pings[2].cause = "none"
    /\ Pings[3].cause = "unexpected reply"
    /\ Len(failed_instances) = 2

InfoSeen == SelectSeq(log, LAMBDA e : e.op = "cluster_info")

NodesSeen == SelectSeq(log, LAMBDA e : e.op = "cluster_nodes")

\* validate_cluster (not a dry run) has returned or raised
ValidationOver == Pings # <<>> /\ pc \in {"exit", "provision_grafana"}

ValidationSucceeded ==
    IF cmd = "validate" THEN result = "ok" ELSE pc = "provision_grafana" \/ result = "ok"

Healthy == FailedPings = <<>>

StateOk == InfoSeen # <<>> /\ InfoSeen[1].seen = <<"ok">>

ExpectedCounts == <<cfg.cluster.masters, cfg.cluster.masters * cfg.cluster.replicas_per_master>>

\* C17: validate_cluster succeeds exactly when every enumerated endpoint is
\* healthy, the representative endpoint reports the cluster state ok and the
\* observed numbers of primaries and replicas are primary_count and
\* primary_count * replicas_per_primary; the stages are checked in that order
\* and the first failing one decides the error, later stages not being asked.
C17_Verdict ==
    ValidationOver =>
        /\ ValidationSucceeded <=>
               (Healthy /\ StateOk /\ NodesSeen # <<>> /\ NodesSeen[1].seen = ExpectedCounts)
        /\ ~Healthy =>
               result = "Cluster validation failed" /\ InfoSeen = <<>> /\ NodesSeen = <<>>
        /\ (Healthy /\ InfoSeen # <<>> /\ InfoSeen[1].seen = <<"fail">>) =>
               result = "Cluster state is not OK" /\ NodesSeen = <<>>
        /\ (NodesSeen # <<>> /\ NodesSeen[1].seen # <<>>) =>
               /\ Healthy /\ StateOk
               /\ NodesSeen[1].seen[1] # ExpectedCounts[1] => result = "Expected masters"
               /\ (NodesSeen[1].seen[1] = ExpectedCounts[1]
                      /\ NodesSeen[1].seen[2] # ExpectedCounts[2]) => result = "Expected replicas"

C17_Witness ==
    /\ cmd = "validate"
    /\ pc = "exit"
    /\ result = "Expected replicas"
    /\ Len(Pings) >= 2
    /\ cfg.cluster.replicas_per_master >= 1
    /\ NodesSeen[1].seen[1] = cfg.cluster.masters

\* C18: a validate run after a deploy reuses nothing of it: it holds no plan,
\* and the counts it compares the live cluster against are those of the
\* topology it was given, primary_count and primary_count *
\* replicas_per_primary, whatever primary_count the deploy had.
C18_ValidationIndependence ==
    (cmd = "validate" /\ prior # <<>>) =>
        /\ plan = NoPlan
        /\ \A j \in 1..Len(log) :
               (log[j].op = "cluster_nodes" /\ log[j].seen # <<>>) =>
                   /\ log[j].res = "ok" <=> log[j].seen = ExpectedCounts
                   /\ log[j].seen[1] # cfg.cluster.masters =>
                          pc = "exit" /\ result = "Expected masters"

C18_Witness ==
    /\ cmd = "validate"
    /\ prior # <<>>
    /\ prior[1].cfg.cluster.masters # cfg.cluster.masters
    /\ pc = "exit"
    /\ result = "Expected masters"
    /\ NodesSeen[1].seen = <<prior[1].cfg.cluster.masters,
                             prior[1].cfg.cluster.masters * prior[1].cfg.cluster.replicas_per_master>>

RollbackEntries(h) == SelectSeq(log, LAMBDA e : e.hi = h /\ e.op # "connect")

Raised == \E j \in 1..Len(log) : log[j].res = "raise"

SecondCall == cmd = "rollback" /\ prior # <<>>

\* C20: rollback twice in a row on the same hosts and ports: neither call
\* raises because of what it finds on the host, the first call leaves the
\* unit and config files of those ports absent and the services stopped and
\* disabled, and the second call leaves that state as it is.
C20_RollbackIdempotent ==
    cmd = "rollback" =>
        /\ (pc = "exit" /\ validate(cfg) = "ok" /\ ~Raised) => result = "ok"
        /\ (SecondCall /\ ~dry_run) => prior[1].remote = Fresh(cfg)
        /\ SecondCall => remote = prior[1].remote

C20_Witness ==
    /\ SecondCall
    /\ ~dry_run
    /\ pc = "exit"
    /\ result = "ok"
    /\ failed_at = 0
    /\ cfg.ports.count_per_host = 2
    /\ Len(RollbackEntries(1)) = Len(RollbackPlan(cfg))
    /\ remote = Fresh(cfg)

Connects == SelectSeq(log, LAMBDA e : e.op = "connect" /\ e.sent)

Failures(ev) == SelectSeq(ev, LAMBDA e : e.kind = "error")

\* C21: SSH.connect (not a dry run) makes at most retries attempts, numbered
\* 0, 1, ...; it returns at the first attempt that succeeds, leaving the client
\* open; after failed attempt k it sleeps 2^k seconds unless that was attempt
\* retries - 1, and closes the client; once retries attempts have failed it
\* raises the terminal error, which holds the host and the cause of the last
\* failed attempt.
C21_ConnectionRetry ==
    \A j \in 1..Len(Connects) :
        LET e == Connects[j]
            ev == e.events
            retries == cfg.ssh.connection_retries
        IN /\ Attempts(ev) <= retries
           /\ \A i \in 1..Len(ev) :
                  /\ ev[i].kind = "attempt" =>
                         /\ ev[i].arg = Attempts(SubSeq(ev, 1, i - 1))
                         /\ i < Len(ev) => ev[i + 1].kind = "error" /\ ev[i + 1].arg = ev[i].arg
                  /\ ev[i].kind = "error" =>
                         /\ ev[i].cause \in AttemptOutcomes \ {"ok"}
                         /\ i < Len(ev)
                         /\ IF ev[i].arg < retries - 1
                            THEN /\ ev[i + 1].kind = "sleep" /\ ev[i + 1].arg = 2^(ev[i].arg)
                                 /\ i + 1 < Len(ev) /\ ev[i + 2].kind = "close"
                            ELSE ev[i + 1].kind = "close"
                  /\ ev[i].kind = "sleep" => i > 1 /\ ev[i - 1].kind = "error"
                  /\ ev[i].kind = "close" => i > 1 /\ ev[i - 1].kind \in {"error", "sleep"}
           /\ e.res = "ok" <=> (ev # <<>> /\ ev[Len(ev)].kind = "attempt")
           /\ e.res = "ok" => conn = <<e.host>> /\ result = "ok" /\ e.error = <<>>
           /\ e.res = "raise" =>
                  /\ Attempts(ev) = retries
                  /\ Len(Failures(ev)) = retries
                  /\ conn = <<>>
                  /\ result = "Failed to connect"
                  /\ Len(e.error) = 1
                  /\ e.error[1].host = cfg.nodes[1]
                  /\ retries > 0 =>
                         e.error[1].last_error = Failures(ev)[retries].cause

C21_Witness ==
    /\ cmd = "connect"
    /\ ~dry_run
    /\ pc = "exit"
    /\ result = "Failed to connect"
    /\ cfg.ssh.connection_retries = 3
    /\ Len(Connects) = 1
    /\ Failures(Connects[1].events)[1].cause = "refused"
    /\ Connects[1].error[1].last_error = "timed out"
    /\ \E i \in 1..Len(Connects[1].events) :
           Connects[1].events[i].kind = "sleep" /\ Connects[1].events[i].arg = 2

\* C22: in a deploy, validate or rollback run at most one client is open at
\* any time, and none while no with-block is being run: the client of a host
\* is open only between that host's connect and the end of its block, and is
\* closed when the block ends normally, when a step raises and when the
\* connection attempts failed; when the command has ended no client is open.
C22_ScopedConnections ==
    cmd \in {"deploy", "validate", "rollback"} =>
        /\ Len(conn) <= 1
        /\ \A j \in 1..Len(log) : log[j].open <= 1
        /\ conn # <<>> => pc \in {"step", "rollback_step"} /\ conn = <<cfg.nodes[hi]>>
        /\ pc = "exit" => conn = <<>>

C22_Witness ==
    /\ cmd = "deploy"
    /\ ~dry_run
    /\ pc = "exit"
    /\ result = "Failed to compile Redis"
    /\ conn = <<>>
    /\ Len(cfg.nodes) = 2
    /\ cfg.nodes[1] # cfg.nodes[2]
    /\ \E i, j \in 1..Len(log) :
           /\ log[i].op = "connect" /\ log[i].hi = 1 /\ log[i].open = 1
           /\ log[j].op = "install_redis_from_source" /\ log[j].hi = 2
           /\ log[j].res = "raise" /\ log[j].open = 1

\* C23: when the replica loop finds, for a primary that has fewer than
\* replicas_per_primary replicas, no endpoint of the remaining pool on another
\* host, assign_roles raises the insufficient-capacity error and returns
\* nothing; a placement that is returned never has a replica list shorter
\* than replicas_per_primary.
C23_ReplicaExhaustion ==
    pc \in {"exit", "hang"} =>
        /\ \A k \in 1..Len(plan.stuck) :
               /\ Len(plan.stuck[k].have) < cfg.cluster.replicas_per_master
               /\ \A i \in Range(plan.stuck[k].remaining) : i.host = plan.stuck[k].master.host
               /\ plan.status = "ValueError"
               /\ result = "ValueError"
               /\ plan.masters = <<>>
               /\ plan.replicas = <<>>
        /\ plan.status = "ValueError" => plan.stuck # <<>>
        /\ plan.status = "ok" =>
               \A m \in Range(plan.masters) :
                   Len(plan.replicas[m]) >= cfg.cluster.replicas_per_master

\* the second primary has one of its two replicas when the pool holds only
\* endpoints of its own host
C23_Witness ==
    /\ pc = "exit"
    /\ validate(cfg) = "ok"
    /\ plan.status = "ValueError"
    /\ Len(plan.stuck) = 1
    /\ Len(plan.stuck[1].have) = 1
    /\ plan.stuck[1].remaining # <<>>
    /\ cfg.cluster.replicas_per_master = 2

\* C24: in a deploy, dry run or not, no remote-executor operation is invoked
\* before load_config has validated the topology and assign_roles has returned
\* a placement; a deploy that ends with a validation error or with the
\* insufficient-capacity error has invoked none, opened no connection and
\* left the hosts as they were.
C24_PreFlight ==
    cmd = "deploy" =>
        /\ log # <<>> =>
               /\ validate(cfg) = "ok"
               /\ plan.status = "ok"
               /\ plan = assign_roles(cfg)
               /\ log[1].op = "connect" /\ log[1].hi = 1
        /\ (validate(cfg) # "ok" \/ plan.status \in {"ValueError", "diverges"}) =>
               /\ log = <<>>
               /\ conn = <<>>
               /\ remote = Fresh(cfg)
        /\ (pc = "exit" /\ validate(cfg) # "ok") => result = validate(cfg) /\ plan = NoPlan
        /\ (pc = "exit" /\ plan.status = "ValueError") => result = "ValueError"

C24_Witness ==
    /\ cmd = "deploy"
    /\ dry_run
    /\ pc = "exit"
    /\ validate(cfg) = "ok"
    /\ plan.status = "ValueError"
    /\ Len(cfg.nodes) = 2
    /\ log = <<>>

\* C25: for every topology that validate accepts, enumerate_instances gives
\* len(hosts) * ports_per_host endpoints, pairwise distinct, the one at
\* (0-based) index h * ports_per_host + i being (hosts[h], port_base + i).
C25_Enumeration ==
    (plan.status # "none" /\ validate(cfg) = "ok") =>
        LET e == enumerate_instances(cfg)
            n == cfg.ports.count_per_host
        IN /\ Len(e) = Len(cfg.nodes) * n
           /\ \A h \in 0..(Len(cfg.nodes) - 1) :
                  \A i \in 0..(n - 1) :
                      e[h * n + i + 1] = Instance(cfg.nodes[h + 1], cfg.ports.base + i)
           /\ \A j, k \in 1..Len(e) : j # k => e[j] # e[k]

\* C26: when install_redis_from_source (not a dry run) returns, the binary at
\* the prefix has reported the engine version that the topology asks for; a
\* binary reporting another version makes the call raise, so that no instance
\* is configured on the host.
C26_VersionVerified ==
    \A i \in 1..Len(log) :
        (log[i].op = "install_redis_from_source" /\ log[i].sent /\ log[i].res = "ok")
            => log[i].seen = <<cfg.redis_version>>

\* C27: when disable_swap (run only with cfg.disable_swap) or
\* setup_exporters_on_host has one of its remote operations fail, raising or
\* exiting non-zero, the step raises to deploy, which ends with that error.
C27_OptionalStepsReport ==
    \A i \in 1..Len(log) :
        (/\ log[i].op \in {"disable_swap", "setup_exporters_on_host"}
         /\ (i = failed_at \/ log[i].res = "raise"))
            => /\ log[i].res = "raise"
               /\ pc = "exit"
               /\ result \notin {"none", "ok"}

\* the operation ended with the terminal connection error
Unreachable(e) == (e.op = "connect" /\ e.res = "raise") \/ e.cause = "unreachable"

\* C28: whenever deploy, create_cluster, validate_cluster or rollback gives up
\* on a host that accepts no connection, the number of attempts it has made is
\* ssh.connection_retries of the topology.
C28_ConfiguredRetries ==
    \A j \in 1..Len(log) :
        Unreachable(log[j]) => log[j].attempts = cfg.ssh.connection_retries

Queries == SelectSeq(log, LAMBDA e : e.op \in {"cluster_info", "cluster_nodes"})

\* C29: the endpoint that validate_cluster asks for the cluster state and for
\* the cluster nodes is the first primary of the placement that assign_roles
\* returns for the same topology (stated for the topologies for which it
\* returns one).
C29_Representative ==
    Queries # <<>> =>
        LET p == assign_roles(cfg)
        IN p.status = "ok" =>
               \A j \in 1..Len(Queries) :
                   Instance(Queries[j].host, Queries[j].port) = p.masters[1]

C29_Witness ==
    /\ cmd = "validate"
    /\ pc = "exit"
    /\ Len(Queries) = 2
    /\ Len(cfg.nodes) = 2
    /\ cfg.nodes[1] # cfg.nodes[2]
    /\ cfg.ports.count_per_host = 2
    /\ assign_roles(cfg).status = "ok"
    /\ Len(assign_roles(cfg).masters) = 2
    /\ Queries[2].host = "a"
    /\ Queries[2].port = cfg.ports.base

\* C30: when the cluster nodes answer shows the expected numbers of primaries
\* and replicas but a replica on the host of its own primary, validate_cluster
\* raises.
C30_LiveAntiAffinity ==
    \A j \in 1..Len(log) :
        (log[j].op = "cluster_nodes" /\ log[j].seen = ExpectedCounts /\ log[j].colocated)
            => /\ log[j].res = "raise"
               /\ pc = "exit"
               /\ result \notin {"none", "ok"}

DistinctHosts(c) == Cardinality(Range(c.nodes)) = Len(c.nodes)

\* the endpoints taken before the j-th replica of the mi-th primary is chosen:
\* the primaries, the replicas of the earlier primaries and the earlier
\* replicas of this one
TakenBefore(mi, j) ==
    Range(plan.masters)
        \cup UNION {Range(plan.replicas[plan.masters[i]]) : i \in 1..(mi - 1)}
        \cup {plan.replicas[plan.masters[mi]][i] : i \in 1..(j - 1)}

\* the endpoints, in enumeration order, that are not taken and not on host h
FreeOffHost(taken, h) ==
    SelectSeq(enumerate_instances(cfg), LAMBDA e : e \notin taken /\ e.host # h)

\* C31: in a placement returned for a validated topology with n distinct
\* hosts the k-th primary (k from 0) is (hosts[k mod n], port_base + k div n),
\* and every replica of a primary, the primaries taken in selection order, is
\* the first endpoint in enumeration order, among those not taken before it,
\* whose host differs from the primary's host.
C31_ReferencePlacement ==
    (Returned /\ DistinctHosts(cfg)) =>
        /\ \A k \in 0..(Len(plan.masters) - 1) :
              plan.masters[k + 1] =
                  Instance(cfg.nodes[(k % Len(cfg.nodes)) + 1],
                           cfg.ports.base + (k \div Len(cfg.nodes)))
        /\ \A mi \in 1..Len(plan.masters) :
              \A j \in 1..Len(plan.replicas[plan.masters[mi]]) :
                  LET free == FreeOffHost(TakenBefore(mi, j), plan.masters[mi].host)
                  IN free # <<>> /\ plan.replicas[plan.masters[mi]][j] = free[1]

\* a returned placement on distinct hosts where a replica was taken past an
\* earlier free endpoint on its primary's host
C31_Witness ==
    /\ Returned
    /\ DistinctHosts(cfg)
    /\ Len(plan.masters) >= 2
    /\ \E mi \in 1..Len(plan.masters) :
          /\ plan.replicas[plan.masters[mi]] # <<>>
          /\ \E i, j \in 1..Len(enumerate_instances(cfg)) :
                /\ i < j
                /\ enumerate_instances(cfg)[i] \notin TakenBefore(mi, 1)
                /\ enumerate_instances(cfg)[i].host = plan.masters[mi].host
                /\ enumerate_instances(cfg)[j] = plan.replicas[plan.masters[mi]][1]

\* C32: assign_roles returns no placement with zero primaries: a topology,
\* validated or built directly, whose primary selection ends with no primary
\* placed is answered with an error.
C32_NoEmptyPlan == (pc = "exit" /\ Returned) => plan.masters # <<>>

\* C33: for every topology with at least one endpoint and primary_count > 0
\* the first primary is placed within the first rotation over the hosts and
\* the primary-selection loop is not left through its break.
C33_BreakUnreachable ==
    (plan.status # "none" /\ enumerate_instances(cfg) # <<>> /\ cfg.cluster.masters > 0)
        => /\ plan.left_by # "break"
           /\ plan.at # <<>>
           /\ plan.at[1] < Len(cfg.nodes)

\* a topology that validate rejects, planned all the same: more primaries
\* asked for than there are endpoints, some of them placed
C33_Witness ==
    /\ plan.status # "none"
    /\ enumerate_instances(cfg) # <<>>
    /\ cfg.cluster.masters > Len(enumerate_instances(cfg))
    /\ Len(cfg.nodes) >= 2
    /\ Len(plan.at) >= 2

Before(e) == e.seen[1]
After(e) == e.seen[2]
FaultFree(e, op) == e.op = op /\ e.cause = "none" /\ e.res = "ok"

\* the instance redis-<port> as install_instance is to leave it on host m
Configured(m, port) ==
    /\ conf_path(port) \in DOMAIN m.files
    /\ m.files[conf_path(port)].lines = render_redis_conf(cfg, port)
    /\ unit_path(port) \in DOMAIN m.files
    /\ m.files[unit_path(port)].lines = render_systemd_service(cfg, port)
    /\ data_dir(port) \in DOMAIN m.files
    /\ m.services[redis_unit(port)].enabled
    /\ m.services[redis_unit(port)].active = (redis_server \in DOMAIN m.files)

\* C34: install_instance (not a dry run, nothing failing on the host) leaves
\* the config file and the unit file with the rendered content and the
\* service enabled and, the engine being installed, running; run again for the
\* same port, by itself or after the host pipeline that ran it, it leaves the
\* host as the run before left it; and so does the whole host pipeline run
\* again after a run that succeeded.
C34_InstallIdempotent ==
    ~dry_run =>
        \A k \in 1..Len(log) :
            /\ FaultFree(log[k], "install_instance") => Configured(After(log[k]), log[k].port)
            /\ FaultFree(log[k], "host_pipeline") =>
                   \A i \in 1..Len(PortsOf(cfg)) :
                       /\ Configured(After(log[k]), PortsOf(cfg)[i])
                       /\ After(log[k]).services[redis_unit(PortsOf(cfg)[i])].active
            /\ (k > 1 /\ FaultFree(log[k], "install_instance")
                      /\ \/ FaultFree(log[k - 1], "install_instance") /\ log[k - 1].port = log[k].port
                         \/ FaultFree(log[k - 1], "host_pipeline"))
                   => After(log[k]) = After(log[k - 1])
            /\ (k > 1 /\ FaultFree(log[k], "host_pipeline") /\ FaultFree(log[k - 1], "host_pipeline"))
                   => After(log[k]) = After(log[k - 1])

\* the host pipeline, then install_instance twice for the same port, the
\* service running after each
C34_Witness ==
    /\ ~dry_run
    /\ Len(log) = 3
    /\ FaultFree(log[1], "host_pipeline")
    /\ FaultFree(log[2], "install_instance")
    /\ FaultFree(log[3], "install_instance")
    /\ log[2].port = log[3].port
    /\ After(log[3]).services[redis_unit(log[3].port)].active
    /\ Before(log[1]) = Pristine(cfg)

\* what rollback_host may touch for the ports it is given
RollbackFiles == UNION {{unit_path(PortsOf(cfg)[i]), conf_path(PortsOf(cfg)[i])} :
                           i \in 1..Len(PortsOf(cfg))}
RollbackUnits == {redis_unit(PortsOf(cfg)[i]) : i \in 1..Len(PortsOf(cfg))}

\* what deploy installed beside them: the data directories, the engine, the
\* exporters with their services
Leftovers(m) ==
    /\ redis_server \in DOMAIN m.files
    /\ node_exporter \in DOMAIN m.files
    /\ m.services["node_exporter"].active
    /\ \A i \in 1..Len(PortsOf(cfg)) :
          /\ data_dir(PortsOf(cfg)[i]) \in DOMAIN m.files
          /\ exporter_unit_path(PortsOf(cfg)[i]) \in DOMAIN m.files
          /\ m.services[exporter_unit(PortsOf(cfg)[i])].active

\* C37: rollback_host changes nothing on the host but the unit file, the
\* config file and the service state of redis-<port> for its ports: every
\* other file (data directories, engine binary, exporter binaries and unit
\* files), every other service (redis_exporter_<port>, node_exporter), the
\* swap, /etc/fstab, the kernel settings, the users and the packages are as
\* before it; so a rollback right after the host pipeline of a deploy on a
\* host that had no engine leaves a host that differs from the one before
\* the deploy.
C37_RollbackFrame ==
    \A k \in 1..Len(log) :
        log[k].op = "rollback_host" =>
            /\ DOMAIN After(log[k]).files \ RollbackFiles = DOMAIN Before(log[k]).files \ RollbackFiles
            /\ \A q \in DOMAIN After(log[k]).files \ RollbackFiles :
                   After(log[k]).files[q] = Before(log[k]).files[q]
            /\ \A u \in Units(cfg) \ RollbackUnits :
                   After(log[k]).services[u] = Before(log[k]).services[u]
            /\ After(log[k]).fstab = Before(log[k]).fstab
            /\ After(log[k]).swap = Before(log[k]).swap
            /\ After(log[k]).sysctl = Before(log[k]).sysctl
            /\ After(log[k]).users = Before(log[k]).users
            /\ After(log[k]).packages = Before(log[k]).packages
            /\ (k > 1 /\ ~dry_run /\ FaultFree(log[k - 1], "host_pipeline")
                      /\ redis_server \notin DOMAIN Before(log[k - 1]).files)
                   => /\ After(log[k]) # Before(log[k - 1])
                      /\ Leftovers(After(log[k]))

\* the host pipeline on the untouched host, then a rollback that stopped and
\* removed every instance
C37_Witness ==
    /\ ~dry_run
    /\ Len(log) >= 2
    /\ Before(log[1]) = Pristine(cfg)
    /\ FaultFree(log[1], "host_pipeline")
    /\ FaultFree(log[2], "rollback_host")
    /\ Len(PortsOf(cfg)) = 2
    /\ cfg.disable_swap
    /\ DOMAIN After(log[2]).files \cap RollbackFiles = {}
    /\ \A u \in RollbackUnits :
          Before(log[2]).services[u].active /\ ~After(log[2]).services[u].active

\* C35: for every topology that validate accepts, whatever names its host
\* list holds, planning comes to an end: assign_roles returns or raises.
C35_PlanningTerminates == (validate(cfg) = "ok") => <>(pc = "exit")

\* the replicas wanted, one slot per primary and replica, in selection order
RECURSIVE Slots(_, _)
Slots(masters, rpm) ==
    IF masters = <<>> THEN <<>>
    ELSE [j \in 1..rpm |-> Head(masters)] \o Slots(Tail(masters), rpm)

\* some way to give every slot an endpoint of the pool, none used twice, each
\* on another host than the slot's primary
Assignable(slots, pool) ==
    \E f \in [1..Len(slots) -> 1..Len(pool)] :
        /\ \A i, j \in 1..Len(slots) : i # j => f[i] # f[j]
        /\ \A i \in 1..Len(slots) : pool[f[i]].host # slots[i].host

\* C36: for a topology that validate accepts, when the endpoints left after
\* primary selection can be handed out so that every primary gets
\* replicas_per_primary replicas on other hosts than its own, no endpoint
\* used twice, assign_roles returns a placement and raises nothing.
C36_FirstFitComplete ==
    (pc = "exit" /\ validate(cfg) = "ok"
        /\ Assignable(Slots(select_masters(cfg).masters, cfg.cluster.replicas_per_master),
                      SelectSeq(enumerate_instances(cfg),
                                LAMBDA i : ~InSeq(i, select_masters(cfg).masters))))
        => plan.status = "ok"

====
